---- MODULE Spec2Model ----
(***************************************************************************)
(* Kite design estimator and scorer (core/calculator.py, core/scorer.py,   *)
(* config/settings.py) and the monitors that feed design records to it     *)
(* (core/scorer.py RealtimeScorer, scripts/realtime_scorer.py,             *)
(* "Realtime scorer.py" SingleBinRealtimeScorer).                          *)
(*                                                                         *)
(* Numbers.  The source computes with Python floats and round().  The      *)
(* model computes with exact integers at a fixed scale:                    *)
(*   - a field rounded to 2 decimals is held in hundredths (x100),         *)
(*   - a field rounded to 1 decimal is held in tenths (x10),               *)
(*   - material properties with one decimal (density, weight_factor,       *)
(*     cost) are held in tenths.                                           *)
(* round(x, k) is round-half-to-even on the exact value (RoundDiv).        *)
(*                                                                         *)
(* Material names: bamboo = 竹子, aluminum = 铝合金, carbon_fiber = 碳纤维,  *)
(* silk = 丝绸, nylon = 尼龙, mylar = Mylar膜, hemp = 麻绳,                   *)
(* steel_cable = 钢索, kevlar = 凯夫拉; "unlisted" is a name that is in no   *)
(* table.  Categories: frame = 骨架材料, surface = 风筝面料,                  *)
(* string = 绳索材料.                                                       *)
(***************************************************************************)
EXTENDS Integers, Sequences, FiniteSets, TLC

VARIABLES
    config,        \* config.settings.config: the global AppConfig instance
    design,        \* engine: the design record handed to KiteScorer.score
    pc,            \* engine: position of the caller of KiteScorer.score
    result,        \* engine: what the last call returned (or NoResult)
    first,         \* engine: what the first call on `design` returned
    kite_params,   \* scorer: the KiteParameters handed to the sub-score methods
    calls,         \* callers: the frame of each caller's call of KiteScorer.score
    monitor,       \* monitor: which monitor program runs
    store,         \* monitor: the 'designs' list stored in the bin
    uploads,       \* monitor: calls of add_design made so far
    processed_ids, \* monitor: processed_ids / scored_design_ids
    results,       \* monitor: results / score_history / score_summary
    submitted,     \* monitor: every record handed to the scorer, in order
    errors,        \* monitor: the identifier on each scoring-failure line logged
    clients,       \* clients: the frame of each client's call of add_design
    smart,         \* smart monitor: its bin, last_update_time, score_history, polls
    last_poll     \* monitor: what the last poll fetched and how it ended

vars == <<config, design, pc, result, first, kite_params, calls,
          monitor, store, uploads, processed_ids, results, submitted, errors,
          clients, smart, last_poll>>

engineVars == <<design, pc, result, first, kite_params, calls>>
monitorVars ==
    <<monitor, store, uploads, processed_ids, results, submitted, errors, clients,
      smart, last_poll>>

----------------------------------------------------------------------------
(* Bounds of the model                                                     *)

MaxSel == 2          \* materials selected per category
PointStep == 500     \* totalPoints are multiples of PointStep
MaxPointSteps == 2   \* ... up to PointStep * MaxPointSteps
PathStep == 10       \* pathCount values are multiples of PathStep
MaxPathSteps == 1
MaxObjects == 1      \* object_count of a drawing without statistics
MaxIds == 1          \* distinct clock instants that stamp design records
MaxStore == 2        \* calls of add_design, hence design records in the bin
MaxStamps == 2       \* distinct instants that stamp the data of the smart monitor's bin
MaxPolls == 3        \* polls of the smart monitor
CostStep == 2500     \* estimated_cost of a drawn KiteParameters: multiples of
MaxCostSteps == 6    \* ... CostStep up to CostStep * MaxCostSteps, each +-0.01
AreaStep == 80       \* area of a drawn KiteParameters, hundredths of cm2
MaxAreaSteps == 1
WeightStep == 8      \* total_weight of a drawn KiteParameters, hundredths of g
MaxWeightSteps == 11
IndexStep == 8504    \* the three indices of a drawn KiteParameters, hundredths
MaxIndexSteps == 1

----------------------------------------------------------------------------
(* Arithmetic helpers                                                      *)

Abs(x) == IF x < 0 THEN -x ELSE x

Max(a, b) == IF a >= b THEN a ELSE b

Min(a, b) == IF a <= b THEN a ELSE b

\* round-half-to-even of k + n/d, for integers k, n >= 0 and d > 0
RoundMixed(k, n, d) ==
    LET base == k + (n \div d)
        r == n % d
    IN  IF 2 * r < d THEN base
        ELSE IF 2 * r > d THEN base + 1
        ELSE IF base % 2 = 0 THEN base ELSE base + 1

\* Python round(): round-half-to-even of n/d
RoundDiv(n, d) == RoundMixed(0, n, d)

RECURSIVE SumOver(_, _)
\* sum of f[x] over the finite set S
SumOver(f, S) ==
    IF S = {} THEN 0
    ELSE LET x == CHOOSE y \in S : TRUE
         IN  f[x] + SumOver(f, S \ {x})

----------------------------------------------------------------------------
(* Configuration (config/settings.py)                                      *)

\* weights in hundredths; thresholds and cost tiers in whole points / yuan
ScoringConfig ==
    [WEIGHT_PERFORMANCE |-> 40, WEIGHT_FEASIBILITY |-> 30,
     WEIGHT_COST |-> 20, WEIGHT_INNOVATION |-> 10,
     SCORE_SUCCESS_THRESHOLD |-> 80, SCORE_STRUGGLE_THRESHOLD |-> 50,
     COST_EXCELLENT |-> 50, COST_GOOD |-> 100, COST_FAIR |-> 150]

\* density, cost, weight_factor in tenths
FRAME_MATERIALS ==
    [bamboo       |-> [density |-> 6,  strength |-> 80,  cost |-> 10, weight_factor |-> 10],
     aluminum     |-> [density |-> 27, strength |-> 150, cost |-> 35, weight_factor |-> 8],
     carbon_fiber |-> [density |-> 16, strength |-> 200, cost |-> 80, weight_factor |-> 5]]

\* cost in tenths
SURFACE_MATERIALS ==
    [silk  |-> [weight_per_sqm |-> 60, wind_resistance |-> 70, cost |-> 20],
     nylon |-> [weight_per_sqm |-> 85, wind_resistance |-> 95, cost |-> 15],
     mylar |-> [weight_per_sqm |-> 50, wind_resistance |-> 85, cost |-> 30]]

\* cost in tenths
STRING_MATERIALS ==
    [hemp        |-> [weight_per_meter |-> 8,  cost |-> 5],
     steel_cable |-> [weight_per_meter |-> 15, cost |-> 20],
     kevlar      |-> [weight_per_meter |-> 5,  cost |-> 50]]

MaterialsConfig ==
    [FRAME_MATERIALS |-> FRAME_MATERIALS,
     SURFACE_MATERIALS |-> SURFACE_MATERIALS,
     STRING_MATERIALS |-> STRING_MATERIALS]

SystemConfig == [DEFAULT_STRING_LENGTH |-> 50]

AppConfig ==
    [scoring |-> ScoringConfig, materials |-> MaterialsConfig, system |-> SystemConfig]

\* get_config(): the one global instance
get_config == config

----------------------------------------------------------------------------
(* Design records                                                          *)

UnlistedMaterial == "unlisted"

\* a drawing summary as stored in a design record:
\*   absent  - the record has no 'drawing' key
\*   null    - 'drawing': None (upload_design stores this when nothing was drawn)
\*   objects - {'object_count': k, ...} without 'statistics' (upload_design)
\*   stats   - {'statistics': {'totalPoints': P, 'pathCount': N}}
PointValues == {PointStep * k : k \in 0..MaxPointSteps}

PathValues == {PathStep * k : k \in 0..MaxPathSteps}

DrawingSet ==
    {[kind |-> "absent"], [kind |-> "null"]}
    \cup {[kind |-> "objects", object_count |-> k] : k \in 0..MaxObjects}
    \cup {[kind |-> "stats", totalPoints |-> p, pathCount |-> n] :
             p \in PointValues, n \in PathValues}

Selections(table) ==
    {s \in SUBSET (DOMAIN table \cup {UnlistedMaterial}) : Cardinality(s) <= MaxSel}

MaterialSelectionSet ==
    [frame : Selections(FRAME_MATERIALS),
     surface : Selections(SURFACE_MATERIALS),
     string : Selections(STRING_MATERIALS)]

DesignSet == [drawing : DrawingSet, materials : MaterialSelectionSet]

----------------------------------------------------------------------------
(* KiteCalculator (core/calculator.py)                                     *)

\* self.drawing = design_data.get('drawing', {}): a stored None stays None,
\* and the first self.drawing.get(...) then raises AttributeError
drawing_get_raises(design_data) == design_data.drawing.kind = "null"

\* stats.get('totalPoints', 0)
stats_totalPoints(design_data) ==
    IF design_data.drawing.kind = "stats" THEN design_data.drawing.totalPoints ELSE 0

\* stats.get('pathCount', 0)
stats_pathCount(design_data) ==
    IF design_data.drawing.kind = "stats" THEN design_data.drawing.pathCount ELSE 0

\* self.drawing.get('object_count', 0)
drawing_object_count(design_data) ==
    IF design_data.drawing.kind = "objects" THEN design_data.drawing.object_count ELSE 0

\* the selected names of a category that are in its table
Recognized(selected, table) == selected \cap DOMAIN table

\* a variant that takes each point for 1 cm2, without the factor 0.8
calculate_area_unit(design_data) ==
    LET stated == stats_totalPoints(design_data)
        total_points == IF stated = 0
                        THEN drawing_object_count(design_data) * 50
                        ELSE stated
    IN  IF total_points > 0 THEN total_points * 100 ELSE 0

\* area in hundredths of cm2
calculate_area(design_data) ==
    LET stated == stats_totalPoints(design_data)
        total_points == IF stated = 0
                        THEN drawing_object_count(design_data) * 50
                        ELSE stated
    IN  IF total_points > 0
        THEN RoundDiv(total_points * 8 * 100, 10)
        ELSE 0

\* a variant that reads the statistics only, without the object_count
\* substitute
calculate_perimeter_of_statistics(design_data) ==
    LET total_points == stats_totalPoints(design_data)
        path_count == stats_pathCount(design_data)
    IN  IF path_count > 0
        THEN RoundDiv(path_count * total_points * 5 * 100, path_count * 10)
        ELSE 0

\* perimeter in hundredths of cm
calculate_perimeter(design_data) ==
    LET stated == stats_totalPoints(design_data)
        total_points == IF stated = 0
                        THEN drawing_object_count(design_data) * 50
                        ELSE stated
        path_count == IF stated = 0
                      THEN drawing_object_count(design_data)
                      ELSE stats_pathCount(design_data)
    IN  IF path_count > 0
        \* path_count * (total_points / path_count) * 0.5
        THEN RoundDiv(path_count * total_points * 5 * 100, path_count * 10)
        ELSE 0

\* a variant that divides by the number of selected materials the table lists
calculate_frame_weight_by_recognized(design_data) ==
    LET frame_materials == design_data.materials.frame
        material_props == get_config.materials.FRAME_MATERIALS
        perimeter == calculate_perimeter(design_data)
        weighted == [m \in Recognized(frame_materials, material_props) |->
                        material_props[m].density * material_props[m].weight_factor]
    IN  IF DOMAIN weighted = {} THEN 0
        ELSE RoundDiv(perimeter * 3 * SumOver(weighted, DOMAIN weighted),
                      4 * 100 * Cardinality(DOMAIN weighted))

\* frame weight in hundredths of g
calculate_frame_weight(design_data) ==
    LET frame_materials == design_data.materials.frame
        material_props == get_config.materials.FRAME_MATERIALS
        perimeter == calculate_perimeter(design_data)
        \* frame_volume = perimeter * 1.5 * 0.5 = perimeter * 3/4
        weighted == [m \in Recognized(frame_materials, material_props) |->
                        material_props[m].density * material_props[m].weight_factor]
    IN  IF frame_materials = {} THEN 0
        ELSE RoundDiv(perimeter * 3 * SumOver(weighted, DOMAIN weighted),
                      4 * 100 * Cardinality(frame_materials))

\* surface weight in hundredths of g
calculate_surface_weight(design_data) ==
    LET surface_materials == design_data.materials.surface
        material_props == get_config.materials.SURFACE_MATERIALS
        area == calculate_area(design_data)
        per_sqm == [m \in Recognized(surface_materials, material_props) |->
                       material_props[m].weight_per_sqm]
    IN  IF surface_materials = {} THEN 0
        ELSE RoundDiv(area * SumOver(per_sqm, DOMAIN per_sqm),
                      10000 * Cardinality(surface_materials))

\* a variant whose string length grows with the area of the kite
calculate_string_weight_by_area(design_data) ==
    LET string_materials == design_data.materials.string
        material_props == get_config.materials.STRING_MATERIALS
        string_length == get_config.system.DEFAULT_STRING_LENGTH
                         + calculate_area(design_data) \div 10000
        per_meter == [m \in Recognized(string_materials, material_props) |->
                         material_props[m].weight_per_meter]
    IN  IF string_materials = {} THEN 0
        ELSE RoundDiv(string_length * SumOver(per_meter, DOMAIN per_meter) * 100,
                      Cardinality(string_materials))

\* string weight in hundredths of g
calculate_string_weight(design_data) ==
    LET string_materials == design_data.materials.string
        material_props == get_config.materials.STRING_MATERIALS
        string_length == get_config.system.DEFAULT_STRING_LENGTH
        per_meter == [m \in Recognized(string_materials, material_props) |->
                         material_props[m].weight_per_meter]
    IN  IF string_materials = {} THEN 0
        ELSE RoundDiv(string_length * SumOver(per_meter, DOMAIN per_meter) * 100,
                      Cardinality(string_materials))

\* total weight in hundredths of g
calculate_total_weight(design_data) ==
    calculate_frame_weight(design_data)
    + calculate_surface_weight(design_data)
    + calculate_string_weight(design_data)

\* a variant that gives an empty frame selection the neutral strength 50
calculate_strength_index_neutral(design_data) ==
    LET frame_materials == design_data.materials.frame
        material_props == get_config.materials.FRAME_MATERIALS
        strength == [m \in Recognized(frame_materials, material_props) |->
                        material_props[m].strength]
    IN  IF frame_materials = {} THEN 50 * 100
        ELSE RoundDiv(SumOver(strength, DOMAIN strength) * 100,
                      Cardinality(frame_materials))

\* strength index in hundredths
calculate_strength_index(design_data) ==
    LET frame_materials == design_data.materials.frame
        material_props == get_config.materials.FRAME_MATERIALS
        strength == [m \in Recognized(frame_materials, material_props) |->
                        material_props[m].strength]
    IN  IF frame_materials = {} THEN 0
        ELSE RoundDiv(SumOver(strength, DOMAIN strength) * 100,
                      Cardinality(frame_materials))

\* wind resistance index in hundredths
calculate_wind_resistance(design_data) ==
    LET surface_materials == design_data.materials.surface
        material_props == get_config.materials.SURFACE_MATERIALS
        resistance == [m \in Recognized(surface_materials, material_props) |->
                          material_props[m].wind_resistance]
    IN  IF surface_materials = {} THEN 0
        ELSE RoundDiv(SumOver(resistance, DOMAIN resistance) * 100,
                      Cardinality(surface_materials))

\* a variant without the floor max(0, ...)
ratio_score_num_unfloored(weight, area) == 200 * area - 100 * Abs(2 * weight - area)

\* ratio_score = max(0, 100 - abs(weight / area - 0.5) * 100) as the
\* fraction ratio_score_num / (2 * area), for area > 0
ratio_score_num(weight, area) == Max(0, 200 * area - 100 * Abs(2 * weight - area))

\* flight stability index in hundredths:
\* round(ratio_score * 0.5 + strength * 0.5, 2)
calculate_flight_stability(design_data) ==
    LET area == calculate_area(design_data)
        weight == calculate_total_weight(design_data)
        strength == calculate_strength_index(design_data)
    IN  IF area > 0
        \* in hundredths: 100 * num / (2 area) / 2 + strength / 2
        \*   = strength \div 2 + (50 * num + (strength % 2) * area) / (2 area)
        THEN RoundMixed(strength \div 2,
                        50 * ratio_score_num(weight, area) + (strength % 2) * area,
                        2 * area)
        \* ratio_score = 0
        ELSE RoundDiv(strength, 2)

\* a variant without the area guard: a zero area counts as ratio 0
calculate_optimal_wind_speed_unguarded(design_data) ==
    LET weight == calculate_total_weight(design_data)
        area == calculate_area(design_data)
        wind_resistance == calculate_wind_resistance(design_data)
    IN  [min |-> IF area > 0 THEN RoundDiv(10 * (2 * area + 2 * weight), area) ELSE 20,
         max |-> RoundDiv(10 * (5 * 1000 + 3 * wind_resistance), 1000)]

\* {'min': ..., 'max': ...} in tenths of m/s
calculate_optimal_wind_speed(design_data) ==
    LET weight == calculate_total_weight(design_data)
        area == calculate_area(design_data)
        wind_resistance == calculate_wind_resistance(design_data)
    IN  IF area > 0
        \* min_wind = 2 + weight / area * 2; max_wind = 5 + wind_resistance / 10 * 3
        THEN [min |-> RoundDiv(10 * (2 * area + 2 * weight), area),
              max |-> RoundDiv(10 * (5 * 1000 + 3 * wind_resistance), 1000)]
        ELSE [min |-> 0, max |-> 0]

\* a variant whose surface term is (100 / area) * cost * 5
calculate_cost_inverted(design_data) ==
    LET perimeter == calculate_perimeter(design_data)
        area == calculate_area(design_data)
        frame_props == get_config.materials.FRAME_MATERIALS
        surface_props == get_config.materials.SURFACE_MATERIALS
        string_props == get_config.materials.STRING_MATERIALS
        frame_cost == [m \in Recognized(design_data.materials.frame, frame_props) |->
                          frame_props[m].cost]
        surface_cost == [m \in Recognized(design_data.materials.surface, surface_props) |->
                            surface_props[m].cost]
        string_cost == [m \in Recognized(design_data.materials.string, string_props) |->
                           string_props[m].cost]
        frame_term == 2 * perimeter * SumOver(frame_cost, DOMAIN frame_cost)
        string_term == 50 * 2 * 200 * SumOver(string_cost, DOMAIN string_cost)
    IN  RoundDiv(frame_term + string_term, 200)
        + (IF area > 0
           THEN RoundDiv(500000 * SumOver(surface_cost, DOMAIN surface_cost), area)
           ELSE 0)

\* estimated cost in hundredths of a yuan
calculate_cost(design_data) ==
    LET perimeter == calculate_perimeter(design_data)
        area == calculate_area(design_data)
        frame_props == get_config.materials.FRAME_MATERIALS
        surface_props == get_config.materials.SURFACE_MATERIALS
        string_props == get_config.materials.STRING_MATERIALS
        frame_cost == [m \in Recognized(design_data.materials.frame, frame_props) |->
                          frame_props[m].cost]
        surface_cost == [m \in Recognized(design_data.materials.surface, surface_props) |->
                            surface_props[m].cost]
        string_cost == [m \in Recognized(design_data.materials.string, string_props) |->
                           string_props[m].cost]
        \* (perimeter / 100) * cost * 10, in hundredths, times 200
        frame_term == 2 * perimeter * SumOver(frame_cost, DOMAIN frame_cost)
        \* (area / 100) * cost * 5, in hundredths, times 200
        surface_term == area * SumOver(surface_cost, DOMAIN surface_cost)
        \* 50 * cost * 0.2, in hundredths, times 200
        string_term == 50 * 2 * 200 * SumOver(string_cost, DOMAIN string_cost)
    IN  RoundDiv(frame_term + surface_term + string_term, 200)

\* a variant in which the echoed mapping is one object shared by all calls,
\* extended by each call instead of replaced
materials_used_shared(design_data) ==
    IF result.kind = "returned"
    THEN [c \in {"frame", "surface", "string"} |->
             result.value.parameters.materials_used[c] \cup design_data.materials[c]]
    ELSE design_data.materials

\* the materials_used echo: self.materials
materials_used_of(design_data) == design_data.materials

\* calculate_all(): the KiteParameters of a design whose drawing is not None
calculate_all(design_data) ==
    LET wind_speed == calculate_optimal_wind_speed(design_data)
    IN  [area |-> calculate_area(design_data),
         perimeter |-> calculate_perimeter(design_data),
         frame_weight |-> calculate_frame_weight(design_data),
         surface_weight |-> calculate_surface_weight(design_data),
         string_weight |-> calculate_string_weight(design_data),
         total_weight |-> calculate_total_weight(design_data),
         strength_index |-> calculate_strength_index(design_data),
         wind_resistance |-> calculate_wind_resistance(design_data),
         flight_stability |-> calculate_flight_stability(design_data),
         min_wind_speed |-> wind_speed.min,
         max_wind_speed |-> wind_speed.max,
         optimal_wind_speed |-> RoundDiv(wind_speed.min + wind_speed.max, 2),
         estimated_cost |-> calculate_cost(design_data),
         materials_used |-> materials_used_of(design_data)]

\* calculate_all() raises: calculate_optimal_wind_speed always reaches
\* calculate_area, whose self.drawing.get raises on a None drawing
calculate_all_raises(design_data) == drawing_get_raises(design_data)

----------------------------------------------------------------------------
(* Python float division and comparison, for `total_weight / area` against *)
(* the band limits. A float is a 53-bit mantissa m, held as two limbs of   *)
(* 28 bits, and an exponent e: its value is m * 2^e, 2^52 <= m < 2^53.     *)

Limb == 268435456

TopLimb == 16777216

BigGeq(a, b) == a.hi > b.hi \/ (a.hi = b.hi /\ a.lo >= b.lo)

BigSub(a, b) ==
    IF a.lo >= b.lo
    THEN [hi |-> a.hi - b.hi, lo |-> a.lo - b.lo]
    ELSE [hi |-> a.hi - b.hi - 1, lo |-> a.lo + Limb - b.lo]

\* 2 * a + bit
BigDouble(a, bit) ==
    LET lo2 == 2 * a.lo + bit
    IN  [hi |-> 2 * a.hi + lo2 \div Limb, lo |-> lo2 % Limb]

BigInc(a) ==
    IF a.lo + 1 = Limb THEN [hi |-> a.hi + 1, lo |-> 0]
    ELSE [hi |-> a.hi, lo |-> a.lo + 1]

\* round to nearest, ties to even, on the bit after the mantissa and the rest
float_round(m, e, round_bit, sticky) ==
    IF round_bit /\ (sticky \/ m.lo % 2 = 1)
    THEN LET up == BigInc(m)
         IN  IF up.hi >= 2 * TopLimb
             THEN [m |-> [hi |-> TopLimb, lo |-> 0], e |-> e + 1]
             ELSE [m |-> up, e |-> e]
    ELSE [m |-> m, e |-> e]

RECURSIVE float_of_bits(_, _, _, _)
\* binary long division of the remainder r by d until the mantissa is full
float_of_bits(m, r, d, e) ==
    IF m.hi >= TopLimb
    THEN float_round(m, e, 2 * r >= d, (2 * r) % d # 0)
    ELSE float_of_bits(BigDouble(m, IF 2 * r >= d THEN 1 ELSE 0), (2 * r) % d, d, e - 1)

RECURSIVE BitLength(_)
\* the number of binary digits of n
BitLength(n) == IF n = 0 THEN 0 ELSE 1 + BitLength(n \div 2)

RECURSIVE DivSmall(_, _, _, _, _)
\* long division of a number of four limbs by d < 2^14, from digit i (1..8,
\* of 14 bits) down: the quotient (below 2^56, as two limbs) and the remainder
DivSmall(a, d, i, q, r) ==
    IF i = 0 THEN [q |-> q, r |-> r]
    ELSE LET digit_i == IF i % 2 = 1 THEN a[(i + 1) \div 2] % 16384
                        ELSE a[i \div 2] \div 16384
             part == r * 16384 + digit_i
             digit == part \div d
         IN  DivSmall(a, d, i - 1,
                      CASE i = 4 -> [q EXCEPT !.hi = digit * 16384]
                        [] i = 3 -> [q EXCEPT !.hi = @ + digit]
                        [] i = 2 -> [q EXCEPT !.lo = digit * 16384]
                        [] i = 1 -> [q EXCEPT !.lo = @ + digit]
                        [] OTHER -> q,
                      part % d)

\* the float nearest to n / d for 0 < n < 2^27 and 0 < d < 2^14: the quotient
\* n * 2^s \div d with 54 binary digits, its last digit and the remainder
\* deciding the rounding
float_of_small(n, d) ==
    LET limb_at(i, q, r) == IF i = q + 1 THEN (n % 2 ^ (28 - r)) * 2 ^ r
                            ELSE IF i = q + 2 THEN n \div 2 ^ (28 - r)
                            ELSE 0
        shifted(s) == <<limb_at(1, s \div 28, s % 28), limb_at(2, s \div 28, s % 28),
                        limb_at(3, s \div 28, s % 28), limb_at(4, s \div 28, s % 28)>>
        rounded(qr, s) ==
            float_round([hi |-> qr.q.hi \div 2,
                         lo |-> (qr.q.lo \div 2) + (qr.q.hi % 2) * (Limb \div 2)],
                        1 - s, qr.q.lo % 2 = 1, qr.r # 0)
        quotient(s) == rounded(DivSmall(shifted(s), d, 8, [hi |-> 0, lo |-> 0], 0), s)
        scale(t) == IF (IF t >= 0 THEN n >= d * 2 ^ t ELSE n * 2 ^ (0 - t) >= d)
                    THEN 53 - t ELSE 54 - t
    IN  quotient(scale(BitLength(n) - BitLength(d)))

\* the float nearest to n / d, for integers n > 0 and d > 0: a value with two
\* decimals (d = 100) as round(x, 2) returns it, or a literal such as 0.3
float_of(n, d) ==
    IF n < Limb \div 2 /\ d < 16384 THEN float_of_small(n, d)
    ELSE float_of_bits([hi |-> 0, lo |-> n \div d], n % d, d, 0)

RECURSIVE float_div_bits(_, _, _, _)
\* binary long division of the mantissas: q so far, with the remainder rest
float_div_bits(q, rest, divisor, e) ==
    IF q.hi >= TopLimb
    THEN float_round(q, e, BigGeq(rest, divisor),
                     rest # [hi |-> 0, lo |-> 0] /\ rest # divisor)
    ELSE LET bit == BigGeq(rest, divisor)
             left == IF bit THEN BigSub(rest, divisor) ELSE rest
         IN  float_div_bits(BigDouble(q, IF bit THEN 1 ELSE 0),
                            BigDouble(left, 0), divisor, e - 1)

\* x / y on floats
float_div(x, y) ==
    float_div_bits([hi |-> 0, lo |-> 0], x.m, y.m, x.e - y.e + 1)

\* x <= y on positive floats
float_le(x, y) == x.e < y.e \/ (x.e = y.e /\ BigGeq(y.m, x.m))

\* total_weight / area <= num / den as the interpreter decides it, for
\* total_weight and area given in hundredths: away from the limit the exact
\* fractions decide (the floats differ from them by less than the gap), on
\* the limit the float quotient does
ratio_le(weight, area, num, den) ==
    IF weight * den # num * area THEN weight * den < num * area
    ELSE weight = 0
         \/ float_le(float_div(float_of(weight, 100), float_of(area, 100)),
                     float_of(num, den))

\* num / den <= total_weight / area, likewise
ratio_ge(weight, area, num, den) ==
    IF weight * den # num * area THEN weight * den > num * area
    ELSE weight > 0
         /\ float_le(float_of(num, den),
                     float_div(float_of(weight, 100), float_of(area, 100)))

----------------------------------------------------------------------------
(* Python float products, sums and round(x, n), for the weighted sums of   *)
(* the scorers. Naturals below 2^112 are four limbs of 28 bits, lowest     *)
(* limb first; the floats are those of the division above, or zero.        *)

N4Of(m) == <<m.lo, m.hi, 0, 0>>

\* limb i of a, 0 outside 1..4
N4Limb(a, i) == IF i >= 1 /\ i <= 4 THEN a[i] ELSE 0

N4Add(a, b) ==
    LET s1 == a[1] + b[1]
        s2 == a[2] + b[2] + (s1 \div Limb)
        s3 == a[3] + b[3] + (s2 \div Limb)
        s4 == a[4] + b[4] + (s3 \div Limb)
    IN  <<s1 % Limb, s2 % Limb, s3 % Limb, s4>>

\* a \div 2^k
N4Shr(a, k) ==
    LET q == k \div 28
        r == k % 28
        at(i) == (N4Limb(a, i + q) \div 2 ^ r)
                 + (N4Limb(a, i + q + 1) % 2 ^ r) * 2 ^ (28 - r)
    IN  <<at(1), at(2), at(3), at(4)>>

\* a * 2^k, for a product below 2^112
N4Shl(a, k) ==
    LET q == k \div 28
        r == k % 28
        at(i) == (N4Limb(a, i - q) % 2 ^ (28 - r)) * 2 ^ r
                 + (N4Limb(a, i - q - 1) \div 2 ^ (28 - r))
    IN  <<at(1), at(2), at(3), at(4)>>

HalfLimb == 16384

\* a * b for a, b < 2^56, on digits of 14 bits
N4Mul(a, b) ==
    LET x == <<a[1] % HalfLimb, a[1] \div HalfLimb, a[2] % HalfLimb, a[2] \div HalfLimb>>
        y == <<b[1] % HalfLimb, b[1] \div HalfLimb, b[2] % HalfLimb, b[2] \div HalfLimb>>
        c1 == x[1] * y[1]
        c2 == x[1] * y[2] + x[2] * y[1] + (c1 \div HalfLimb)
        c3 == x[1] * y[3] + x[2] * y[2] + x[3] * y[1] + (c2 \div HalfLimb)
        c4 == x[1] * y[4] + x[2] * y[3] + x[3] * y[2] + x[4] * y[1] + (c3 \div HalfLimb)
        c5 == x[2] * y[4] + x[3] * y[3] + x[4] * y[2] + (c4 \div HalfLimb)
        c6 == x[3] * y[4] + x[4] * y[3] + (c5 \div HalfLimb)
        c7 == x[4] * y[4] + (c6 \div HalfLimb)
        c8 == c7 \div HalfLimb
    IN  <<(c1 % HalfLimb) + HalfLimb * (c2 % HalfLimb),
          (c3 % HalfLimb) + HalfLimb * (c4 % HalfLimb),
          (c5 % HalfLimb) + HalfLimb * (c6 % HalfLimb),
          (c7 % HalfLimb) + HalfLimb * c8>>

FloatZero == [m |-> [hi |-> 0, lo |-> 0], e |-> 0]

\* the float of the two-decimal value n / d, zero included
float_value(n, d) == IF n = 0 THEN FloatZero ELSE float_of(n, d)

\* the float nearest to big * 2^e, for 2^(52 + k) <= big < 2^(54 + k)
float_pack(big, e, k) ==
    LET drop == IF N4Shr(big, 53 + k) # <<0, 0, 0, 0>> THEN k + 1 ELSE k
        m == N4Shr(big, drop)
        round_bit == drop > 0 /\ N4Shr(big, drop - 1)[1] % 2 = 1
        sticky == drop > 1 /\ N4Shl(N4Shr(big, drop - 1), drop - 1) # big
    IN  float_round([hi |-> m[2], lo |-> m[1]], e + drop, round_bit, sticky)

\* x * y on non-negative floats
float_mul(x, y) ==
    IF x = FloatZero \/ y = FloatZero THEN FloatZero
    ELSE float_pack(N4Mul(N4Of(x.m), N4Of(y.m)), x.e + y.e, 52)

\* x + y on non-negative floats
float_add(x, y) ==
    IF x = FloatZero THEN y
    ELSE IF y = FloatZero THEN x
    ELSE LET high == IF x.e >= y.e THEN x ELSE y
             low == IF x.e >= y.e THEN y ELSE x
             d == high.e - low.e
         IN  \* a term below half of the last place rounds away
             IF d > 53 THEN high
             ELSE float_pack(N4Add(N4Shl(N4Of(high.m), d), N4Of(low.m)), low.e, d)

RECURSIVE float_dot(_, _)
\* v1 * w1 + v2 * w2 + ... over the first k pairs, summed from the left
float_dot(terms, k) ==
    IF k = 1 THEN float_mul(terms[1][1], terms[1][2])
    ELSE float_add(float_dot(terms, k - 1), float_mul(terms[k][1], terms[k][2]))

\* round(x, n) times 10^n, for scale = 10^n and a float 2^-40 <= x < 2^20
\* or zero: nearest even on the exact value of x
float_round_to(x, scale) ==
    LET big == N4Mul(N4Of(x.m), <<scale, 0, 0, 0>>)
        drop == 0 - x.e
        whole == N4Shr(big, drop)[1] + Limb * N4Shr(big, drop)[2]
        round_bit == N4Shr(big, drop - 1)[1] % 2 = 1
        sticky == N4Shl(N4Shr(big, drop - 1), drop - 1) # big
    IN  IF x = FloatZero THEN 0
        ELSE IF round_bit /\ (sticky \/ whole % 2 = 1) THEN whole + 1
        ELSE whole

\* the literals 0.5, 0.3 and 0.2 as floats
PerformanceWeights == <<float_of(5, 10), float_of(3, 10), float_of(2, 10)>>

\* the literals 0.40, 0.30, 0.20 and 0.10 as floats
CompositeWeights == <<float_of(4, 10), float_of(3, 10), float_of(2, 10), float_of(1, 10)>>

\* flight_stability * 0.5 + strength_index * 0.3 + wind_resistance * 0.2 as
\* the float the interpreter computes, of both scorers
performance_sum(params) ==
    float_dot(<<<<float_value(params.flight_stability, 100), PerformanceWeights[1]>>,
                <<float_value(params.strength_index, 100), PerformanceWeights[2]>>,
                <<float_value(params.wind_resistance, 100), PerformanceWeights[3]>>>>, 3)

----------------------------------------------------------------------------
(* KiteScorer (core/scorer.py)                                             *)

\* performance score in hundredths
calculate_performance_score(params) ==
    LET tenfold == params.flight_stability * 5 + params.strength_index * 3
                   + params.wind_resistance * 2
    IN  IF tenfold % 10 # 5 THEN RoundDiv(tenfold, 10)
        \* the exact sum ends in 5 thousandths: the float sum decides
        ELSE float_round_to(performance_sum(params), 100)

\* a variant without the area guard: a zero area counts as ratio 0
calculate_feasibility_score_unguarded(params) ==
    IF params.area > 0
       /\ ratio_ge(params.total_weight, params.area, 3, 10)
       /\ ratio_le(params.total_weight, params.area, 7, 10) THEN 100
    ELSE IF params.area > 0
            /\ ratio_ge(params.total_weight, params.area, 2, 10)
            /\ ratio_le(params.total_weight, params.area, 10, 10) THEN 70
    ELSE 40

\* feasibility score, whole points
calculate_feasibility_score(params) ==
    IF params.area <= 0 THEN 0
    \* 0.3 <= ratio <= 0.7, ratio = params.total_weight / params.area
    ELSE IF ratio_ge(params.total_weight, params.area, 3, 10)
            /\ ratio_le(params.total_weight, params.area, 7, 10) THEN 100
    \* 0.2 <= ratio <= 1.0
    ELSE IF ratio_ge(params.total_weight, params.area, 2, 10)
            /\ ratio_le(params.total_weight, params.area, 10, 10) THEN 70
    ELSE 40

\* a variant whose tiers include their upper limit
calculate_cost_score_inclusive(params) ==
    LET cost == params.estimated_cost
        cfg == get_config.scoring
    IN  IF cost <= cfg.COST_EXCELLENT * 100 THEN 100
        ELSE IF cost <= cfg.COST_GOOD * 100 THEN 80
        ELSE IF cost <= cfg.COST_FAIR * 100 THEN 60
        ELSE 30

\* cost score, whole points
calculate_cost_score(params) ==
    LET cost == params.estimated_cost
        cfg == get_config.scoring
    IN  IF cost < cfg.COST_EXCELLENT * 100 THEN 100
        ELSE IF cost < cfg.COST_GOOD * 100 THEN 80
        ELSE IF cost < cfg.COST_FAIR * 100 THEN 60
        ELSE 30

\* a variant without the cap at 100
calculate_innovation_score_uncapped(params) ==
    LET materials_count == Cardinality(params.materials_used.frame)
                           + Cardinality(params.materials_used.surface)
                           + Cardinality(params.materials_used.string)
    IN  materials_count * 20

\* innovation score, whole points
calculate_innovation_score(params) ==
    LET materials_count == Cardinality(params.materials_used.frame)
                           + Cardinality(params.materials_used.surface)
                           + Cardinality(params.materials_used.string)
    IN  Min(materials_count * 20, 100)

\* a variant with the default thresholds written into the code
determine_level_hardcoded(score) ==
    IF score >= 800 THEN "success"
    ELSE IF score >= 500 THEN "struggle"
    ELSE "fail"

\* verdict tier of a total score given in tenths
determine_level(score) ==
    LET cfg == get_config.scoring
    IN  IF score >= cfg.SCORE_SUCCESS_THRESHOLD * 10 THEN "success"
        ELSE IF score >= cfg.SCORE_STRUGGLE_THRESHOLD * 10 THEN "struggle"
        ELSE "fail"

\* a variant that weights cost by WEIGHT_INNOVATION and innovation by
\* WEIGHT_COST
score_of_params_swapped(params) ==
    LET performance == calculate_performance_score(params)
        feasibility == calculate_feasibility_score(params)
        cost == calculate_cost_score(params)
        innovation == calculate_innovation_score(params)
        cfg == get_config.scoring
        total == RoundDiv(performance * cfg.WEIGHT_PERFORMANCE
                          + 100 * feasibility * cfg.WEIGHT_FEASIBILITY
                          + 100 * cost * cfg.WEIGHT_INNOVATION
                          + 100 * innovation * cfg.WEIGHT_COST, 1000)
    IN  [total_score |-> total,
         level |-> determine_level(total),
         performance_score |-> performance,
         feasibility_score |-> feasibility,
         cost_score |-> cost,
         innovation_score |-> innovation,
         parameters |-> params]

\* KiteScorer.score() after params = calculator.calculate_all():
\* the ScoreResult, total_score in tenths
score_of_params(params) ==
    LET performance == calculate_performance_score(params)
        feasibility == calculate_feasibility_score(params)
        cost == calculate_cost_score(params)
        innovation == calculate_innovation_score(params)
        cfg == get_config.scoring
        \* weights are hundredths, performance is hundredths: total * 10000;
        \* a multiple of 0.004 plus whole points never ends in 5 hundredths,
        \* so the rounding is never on a tie
        total == RoundDiv(performance * cfg.WEIGHT_PERFORMANCE
                          + 100 * feasibility * cfg.WEIGHT_FEASIBILITY
                          + 100 * cost * cfg.WEIGHT_COST
                          + 100 * innovation * cfg.WEIGHT_INNOVATION, 1000)
    IN  [total_score |-> total,
         level |-> determine_level(total),
         performance_score |-> performance,
         feasibility_score |-> feasibility,
         cost_score |-> cost,
         innovation_score |-> innovation,
         parameters |-> params]

\* KiteScorer.score() on a design for which calculate_all returns
KiteScorer_score(design_data) == score_of_params(calculate_all(design_data))

\* KiteScorer.score() raises exactly when KiteCalculator.calculate_all does
KiteScorer_score_raises(design_data) == calculate_all_raises(design_data)

----------------------------------------------------------------------------
(* Legacy KiteCalculator (kite_calculator.py) and                         *)
(* SingleBinRealtimeScorer._calculate_comprehensive_score                  *)

\* the class attribute KiteCalculator.MATERIAL_PROPERTIES (tenths as above)
MATERIAL_PROPERTIES ==
    [frame |->
        [bamboo       |-> [density |-> 6,  strength |-> 80,  cost |-> 10, weight_factor |-> 10],
         aluminum     |-> [density |-> 27, strength |-> 150, cost |-> 35, weight_factor |-> 8],
         carbon_fiber |-> [density |-> 16, strength |-> 200, cost |-> 80, weight_factor |-> 5]],
     surface |->
        [silk  |-> [weight_per_sqm |-> 60, wind_resistance |-> 70, cost |-> 20],
         nylon |-> [weight_per_sqm |-> 85, wind_resistance |-> 95, cost |-> 15],
         mylar |-> [weight_per_sqm |-> 50, wind_resistance |-> 85, cost |-> 30]],
     string |->
        [hemp        |-> [weight_per_meter |-> 8,  cost |-> 5],
         steel_cable |-> [weight_per_meter |-> 15, cost |-> 20],
         kevlar      |-> [weight_per_meter |-> 5,  cost |-> 50]]]

\* MATERIAL_PROPERTIES[category].get(material, {}).get(field, default)
legacy_prop(category, material, field, default) ==
    IF material \in DOMAIN MATERIAL_PROPERTIES[category]
    THEN MATERIAL_PROPERTIES[category][material][field]
    ELSE default

\* a variant that takes each point for 1 cm2, without the factor 0.8
legacy_calculate_area_unit(design_data) ==
    LET total_points == stats_totalPoints(design_data)
    IN  IF total_points > 0 THEN total_points * 100 ELSE 0

legacy_calculate_area(design_data) ==
    LET total_points == stats_totalPoints(design_data)
    IN  IF total_points > 0 THEN RoundDiv(total_points * 8 * 100, 10) ELSE 0

legacy_calculate_perimeter(design_data) ==
    LET path_count == stats_pathCount(design_data)
        total_points == stats_totalPoints(design_data)
    IN  IF path_count > 0
        THEN RoundDiv(path_count * total_points * 5 * 100, path_count * 10)
        ELSE 0

legacy_calculate_frame_weight(design_data) ==
    LET frame_materials == design_data.materials.frame
        perimeter == legacy_calculate_perimeter(design_data)
        weighted == [m \in frame_materials |->
                        legacy_prop("frame", m, "density", 10)
                        * legacy_prop("frame", m, "weight_factor", 10)]
    IN  IF frame_materials = {} THEN 0
        ELSE RoundDiv(perimeter * 3 * SumOver(weighted, frame_materials),
                      4 * 100 * Cardinality(frame_materials))

legacy_calculate_surface_weight(design_data) ==
    LET surface_materials == design_data.materials.surface
        area == legacy_calculate_area(design_data)
        per_sqm == [m \in surface_materials |->
                       legacy_prop("surface", m, "weight_per_sqm", 70)]
    IN  IF surface_materials = {} THEN 0
        ELSE RoundDiv(area * SumOver(per_sqm, surface_materials),
                      10000 * Cardinality(surface_materials))

legacy_calculate_string_weight(design_data) ==
    LET string_materials == design_data.materials.string
        per_meter == [m \in string_materials |->
                         legacy_prop("string", m, "weight_per_meter", 8)]
    IN  IF string_materials = {} THEN 0
        ELSE RoundDiv(50 * SumOver(per_meter, string_materials) * 100,
                      Cardinality(string_materials))

legacy_calculate_total_weight(design_data) ==
    legacy_calculate_frame_weight(design_data)
    + legacy_calculate_surface_weight(design_data)
    + legacy_calculate_string_weight(design_data)

legacy_calculate_strength_index(design_data) ==
    LET frame_materials == design_data.materials.frame
        strength == [m \in frame_materials |-> legacy_prop("frame", m, "strength", 50)]
    IN  IF frame_materials = {} THEN 0
        ELSE RoundDiv(SumOver(strength, frame_materials) * 100,
                      Cardinality(frame_materials))

legacy_calculate_wind_resistance(design_data) ==
    LET surface_materials == design_data.materials.surface
        resistance == [m \in surface_materials |->
                          legacy_prop("surface", m, "wind_resistance", 50)]
    IN  IF surface_materials = {} THEN 0
        ELSE RoundDiv(SumOver(resistance, surface_materials) * 100,
                      Cardinality(surface_materials))

legacy_calculate_flight_stability(design_data) ==
    LET area == legacy_calculate_area(design_data)
        weight == legacy_calculate_total_weight(design_data)
        strength == legacy_calculate_strength_index(design_data)
    IN  IF area > 0
        THEN RoundMixed(strength \div 2,
                        50 * ratio_score_num(weight, area) + (strength % 2) * area,
                        2 * area)
        ELSE RoundDiv(strength, 2)

legacy_calculate_optimal_wind_speed(design_data) ==
    LET weight == legacy_calculate_total_weight(design_data)
        area == legacy_calculate_area(design_data)
        wind_resistance == legacy_calculate_wind_resistance(design_data)
    IN  IF area > 0
        THEN [min |-> RoundDiv(10 * (2 * area + 2 * weight), area),
              max |-> RoundDiv(10 * (5 * 1000 + 3 * wind_resistance), 1000)]
        ELSE [min |-> 0, max |-> 0]

legacy_calculate_cost(design_data) ==
    LET perimeter == legacy_calculate_perimeter(design_data)
        area == legacy_calculate_area(design_data)
        frame_cost == [m \in design_data.materials.frame |->
                          legacy_prop("frame", m, "cost", 10)]
        surface_cost == [m \in design_data.materials.surface |->
                            legacy_prop("surface", m, "cost", 10)]
        string_cost == [m \in design_data.materials.string |->
                           legacy_prop("string", m, "cost", 10)]
    IN  RoundDiv(2 * perimeter * SumOver(frame_cost, DOMAIN frame_cost)
                 + area * SumOver(surface_cost, DOMAIN surface_cost)
                 + 50 * 2 * 200 * SumOver(string_cost, DOMAIN string_cost), 200)

\* calculate_all_parameters(): the nested dict, flattened to the same fields
\* as KiteParameters
legacy_calculate_all_parameters(design_data) ==
    LET wind_speed == legacy_calculate_optimal_wind_speed(design_data)
    IN  [area |-> legacy_calculate_area(design_data),
         perimeter |-> legacy_calculate_perimeter(design_data),
         frame_weight |-> legacy_calculate_frame_weight(design_data),
         surface_weight |-> legacy_calculate_surface_weight(design_data),
         string_weight |-> legacy_calculate_string_weight(design_data),
         total_weight |-> legacy_calculate_total_weight(design_data),
         strength_index |-> legacy_calculate_strength_index(design_data),
         wind_resistance |-> legacy_calculate_wind_resistance(design_data),
         flight_stability |-> legacy_calculate_flight_stability(design_data),
         min_wind_speed |-> wind_speed.min,
         max_wind_speed |-> wind_speed.max,
         optimal_wind_speed |-> RoundDiv(wind_speed.min + wind_speed.max, 2),
         estimated_cost |-> legacy_calculate_cost(design_data),
         materials_used |-> design_data.materials]

\* the legacy calculator raises on a None drawing, like the core one
legacy_calculate_all_raises(design_data) == drawing_get_raises(design_data)

\* the feasibility part of _calculate_comprehensive_score, whole points
comprehensive_feasibility_score(params) ==
    LET area == params.area
        weight == params.total_weight
    IN  IF area > 0
        THEN IF ratio_ge(weight, area, 3, 10) /\ ratio_le(weight, area, 7, 10) THEN 100
             ELSE IF ratio_ge(weight, area, 2, 10) /\ ratio_le(weight, area, 10, 10) THEN 70
             ELSE 40
        ELSE 0

\* the cost part of _calculate_comprehensive_score, whole points
comprehensive_cost_score(params) ==
    LET cost == params.estimated_cost
    IN  IF cost < 5000 THEN 100
        ELSE IF cost < 10000 THEN 80
        ELSE IF cost < 15000 THEN 60
        ELSE 30

\* the innovation part of _calculate_comprehensive_score, whole points
comprehensive_innovation_score(params) ==
    LET materials_count == Cardinality(params.materials_used.frame)
                           + Cardinality(params.materials_used.surface)
                           + Cardinality(params.materials_used.string)
    IN  Min(materials_count * 20, 100)

\* _calculate_comprehensive_score(params): the composite score in tenths;
\* the performance score is not rounded before it is weighted
comprehensive_score(params) ==
    LET performance10 == params.flight_stability * 5 + params.strength_index * 3
                         + params.wind_resistance * 2
        feasibility_score == comprehensive_feasibility_score(params)
        cost_score == comprehensive_cost_score(params)
        innovation_score == comprehensive_innovation_score(params)
        final1000 == performance10 * 4 + 1000 * feasibility_score * 3
                     + 1000 * cost_score * 2 + 1000 * innovation_score
    IN  IF final1000 % 1000 # 500 THEN RoundDiv(final1000, 1000)
        \* the exact sum ends in 5 hundredths: the float sum decides
        ELSE float_round_to(
                 float_dot(<<<<performance_sum(params), CompositeWeights[1]>>,
                             <<float_value(feasibility_score, 1), CompositeWeights[2]>>,
                             <<float_value(cost_score, 1), CompositeWeights[3]>>,
                             <<float_value(innovation_score, 1), CompositeWeights[4]>>>>, 4),
                 10)

----------------------------------------------------------------------------
(* A caller of the engine: KiteScorer().score(design), another call on a   *)
(* different record, then score(design) again                             *)

NoResult == [kind |-> "none"]

\* KiteParameters(): the dataclass defaults
NoParams ==
    [area |-> 0, perimeter |-> 0, frame_weight |-> 0, surface_weight |-> 0,
     string_weight |-> 0, total_weight |-> 0, strength_index |-> 0,
     wind_resistance |-> 0, flight_stability |-> 0, min_wind_speed |-> 0,
     max_wind_speed |-> 0, optimal_wind_speed |-> 0, estimated_cost |-> 0,
     materials_used |-> [frame |-> {}, surface |-> {}, string |-> {}]]

Raised == [kind |-> "raised"]

\* the callers that share one KiteScorer, its configuration and the records
Callers == {1, 2}

\* a caller that is not inside KiteScorer.score: no locals
NoCall ==
    [at |-> "idle",
     design_data |-> [drawing |-> [kind |-> "absent"],
                      materials |-> [frame |-> {}, surface |-> {}, string |-> {}]],
     params |-> NoParams,
     scores |-> [performance |-> 0, feasibility |-> 0, cost |-> 0, innovation |-> 0],
     result |-> NoResult,
     overlapped |-> FALSE]

NoCalls == [c \in Callers |-> NoCall]

\* what one call of KiteScorer.score hands back to its caller
Call(design_data) ==
    IF KiteScorer_score_raises(design_data)
    THEN Raised
    ELSE [kind |-> "returned", value |-> KiteScorer_score(design_data)]

\* Scenario B of the specification: 1000 points on 10 paths,
\* carbon fibre, nylon, kevlar
ScenarioB ==
    [drawing |-> [kind |-> "stats", totalPoints |-> 1000, pathCount |-> 10],
     materials |-> [frame |-> {"carbon_fiber"}, surface |-> {"nylon"},
                    string |-> {"kevlar"}]]

\* Scenario A of the specification: no drawing, bamboo frame only
ScenarioA ==
    [drawing |-> [kind |-> "absent"],
     materials |-> [frame |-> {"bamboo"}, surface |-> {}, string |-> {}]]

OtherDesigns == {ScenarioB}

\* the clients that upload to one bin, each through its own DesignRepository
Clients == {1, 2}

\* no client has called add_design
NoClients ==
    [c \in Clients |->
        [at |-> "idle", existing |-> <<>>, design |-> [design_id |-> <<"absent", 0>>],
         read_ok |-> TRUE, returned |-> "none"]]

\* the bin before the first upload: nothing to read
NoData == [kind |-> "none"]

\* SmartRealtimeScorer.__init__: last_update_time = None, score_history = []
SmartIdle ==
    [data |-> NoData, last_update_time |-> <<"absent", 0>>, score_history |-> <<>>,
     polls |-> <<>>, ended |-> "none"]

MonitorIdle ==
    /\ monitor = "none"
    /\ store = <<>>
    /\ uploads = 0
    /\ processed_ids = {}
    /\ results = <<>>
    /\ submitted = <<>>
    /\ errors = <<>>
    /\ clients = NoClients
    /\ smart = SmartIdle
    /\ last_poll = [fetched |-> <<>>, ended |-> "none", before |-> {}]

Init ==
    /\ config = AppConfig
    /\ design \in DesignSet
    /\ pc = "ready"
    /\ result = NoResult
    /\ first = NoResult
    /\ kite_params = NoParams
    /\ calls = NoCalls
    /\ MonitorIdle

\* scorer.score(design)
Score ==
    /\ pc = "ready"
    /\ result' = Call(design)
    /\ first' = result'
    /\ pc' = "scored"
    /\ UNCHANGED <<config, design, kite_params, calls, monitorVars>>

\* scorer.score(other) by the same or another caller
ScoreOther ==
    /\ pc = "scored"
    /\ \E other \in OtherDesigns : result' = Call(other)
    /\ pc' = "other"
    /\ UNCHANGED <<config, design, first, kite_params, calls, monitorVars>>

\* scorer.score(design) once more
ScoreAgain ==
    /\ pc = "other"
    /\ result' = Call(design)
    /\ pc' = "again"
    /\ UNCHANGED <<config, design, first, kite_params, calls, monitorVars>>

Next == Score \/ ScoreOther \/ ScoreAgain

Spec == Init /\ [][Next]_vars

----------------------------------------------------------------------------
(* The bin and the monitors                                                *)

\* a key the record does not have
NoKey == <<"absent", 0>>

\* the default 'unknown' of design.get(..., 'unknown')
Unknown == <<"unknown", 0>>

\* upload_design stamps design_id (to the second) and created_at from the
\* clock; other writers of the bin may leave either key out
KeyShapes ==
    {[design_id |-> <<"id", k>>, created_at |-> <<"at", k>>] : k \in 1..MaxIds}
    \cup {[design_id |-> <<"id", k>>, created_at |-> NoKey] : k \in 1..MaxIds}
    \cup {[design_id |-> NoKey, created_at |-> <<"at", k>>] : k \in 1..MaxIds}
    \cup {[design_id |-> NoKey, created_at |-> NoKey]}

\* a materials-only design as upload_design stores it: 'drawing': None
Undrawn ==
    [drawing |-> [kind |-> "null"],
     materials |-> [frame |-> {"bamboo"}, surface |-> {}, string |-> {}]]

MonitorDesigns == {ScenarioB, Undrawn}

RecordSet ==
    {[design_id |-> k.design_id, created_at |-> k.created_at,
      drawing |-> d.drawing, materials |-> d.materials] :
        k \in KeyShapes, d \in MonitorDesigns}

\* a variant that never falls back on created_at
design_id_without_fallback(design_data) ==
    IF design_data.design_id # NoKey THEN design_data.design_id ELSE Unknown

\* design.get('design_id', design.get('created_at', 'unknown'))
design_id_of(design_data) ==
    IF design_data.design_id # NoKey THEN design_data.design_id
    ELSE IF design_data.created_at # NoKey THEN design_data.created_at
    ELSE Unknown

\* self.processed_ids = {design_id}: a variant that forgets the earlier ids
mark_processed_forgetful(processed, design_id) == {design_id}

\* self.processed_ids.add(design_id)
mark_processed(processed, design_id) == processed \cup {design_id}

\* DesignRepository.get_all_designs(): the stored list, [] when the read fails
get_all_designs(read_ok) == IF read_ok THEN store ELSE <<>>

\* a variant without the test on processed_ids: every fetched record is scored
check_new_designs_step_unguarded(st, design_data) ==
    LET design_id == design_id_of(design_data)
        scored(outcome) ==
            [st EXCEPT
                !.processed = mark_processed(st.processed, design_id),
                !.submitted = Append(st.submitted,
                                     [design_id |-> design_id, design |-> design_data]),
                !.results =
                    IF outcome.kind = "returned"
                    THEN Append(st.results,
                                [design_id |-> design_id,
                                 score |-> outcome.value.total_score,
                                 level |-> outcome.value.level,
                                 design |-> design_data])
                    ELSE st.results]
    IN  scored(Call(design_data))

\* one iteration of the loop of RealtimeScorer.check_new_designs
check_new_designs_step(st, design_data) ==
    LET design_id == design_id_of(design_data)
        scored(outcome) ==
            [st EXCEPT
                !.processed = mark_processed(st.processed, design_id),
                !.submitted = Append(st.submitted,
                                     [design_id |-> design_id, design |-> design_data]),
                !.results =
                    IF outcome.kind = "returned"
                    THEN Append(st.results,
                                [design_id |-> design_id,
                                 score |-> outcome.value.total_score,
                                 level |-> outcome.value.level,
                                 design |-> design_data])
                    ELSE st.results,
                \* logger.error(f"评分失败 {design_id}: {e}")
                !.errors =
                    IF outcome.kind = "returned" THEN st.errors
                    ELSE Append(st.errors, design_id)]
    IN  IF design_id \in st.processed THEN st
        ELSE scored(Call(design_data))

\* one iteration of the loop of RealtimeScorerCLI.run_once: score,
\* display_score and save_summary inside one try
cli_run_once_step(st, design_data) ==
    LET design_id == design_id_of(design_data)
        scored(outcome) ==
            [st EXCEPT
                !.processed = mark_processed(st.processed, design_id),
                !.submitted = Append(st.submitted,
                                     [design_id |-> design_id, design |-> design_data]),
                !.results =
                    IF outcome.kind = "returned"
                    THEN Append(st.results,
                                [design_id |-> design_id,
                                 score |-> outcome.value.total_score,
                                 level |-> outcome.value.level])
                    ELSE st.results,
                \* print(f"❌ 评分失败: {e}"): a line without the identifier
                !.errors =
                    IF outcome.kind = "returned" THEN st.errors
                    ELSE Append(st.errors, NoKey)]
    IN  IF design_id \in st.processed THEN st
        ELSE scored(Call(design_data))

\* design.get('design_id', 'unknown'), the design_id of a score record
score_data_design_id(design_data) ==
    IF design_data.design_id # NoKey THEN design_data.design_id ELSE Unknown

\* SingleBinRealtimeScorer.calculate_score: never raises; a failure becomes
\* a record with success False, score 0 and no 'created_at' key
single_calculate_score(design_data) ==
    IF legacy_calculate_all_raises(design_data)
    THEN [design_id |-> score_data_design_id(design_data),
          created_at |-> NoKey, score |-> 0, success |-> FALSE]
    ELSE [design_id |-> score_data_design_id(design_data),
          created_at |-> design_data.created_at,
          score |-> comprehensive_score(legacy_calculate_all_parameters(design_data)),
          success |-> TRUE]

\* SingleBinRealtimeScorer.display_score raises TypeError on
\* score_data.get('created_at', 'unknown')[:19] when the key is there with
\* the value None, which is what a successful calculate_score stores for a
\* design without created_at
single_display_score_raises(score_data) ==
    score_data.success /\ score_data.created_at = NoKey

\* one iteration of the scoring loop of SingleBinRealtimeScorer.run_once,
\* over the new designs that get_new_designs has already marked
single_run_once_step(st, design_data) ==
    LET design_id == design_id_of(design_data)
        displayed(score_data) ==
            [st EXCEPT
                !.processed = mark_processed(st.processed, design_id),
                !.submitted = Append(st.submitted,
                                     [design_id |-> design_id, design |-> design_data]),
                !.results =
                    IF single_display_score_raises(score_data)
                    THEN st.results
                    ELSE Append(st.results,
                                [design_id |-> score_data.design_id,
                                 created_at |-> score_data.created_at,
                                 score |-> score_data.score]),
                \* print(f"❌ 计算评分失败: {str(e)}"): a line without the identifier
                !.errors =
                    IF score_data.success THEN st.errors
                    ELSE Append(st.errors, NoKey),
                !.ended =
                    IF single_display_score_raises(score_data)
                    THEN "raised" ELSE "returned"]
    IN  IF st.ended = "raised" \/ design_id \in st.processed THEN st
        ELSE displayed(single_calculate_score(design_data))

\* SingleBinRealtimeScorer.get_new_designs: every identifier of the list is
\* in scored_design_ids afterwards
RECURSIVE get_new_designs_marks(_, _)
get_new_designs_marks(processed, designs) ==
    IF designs = <<>> THEN processed
    ELSE get_new_designs_marks(mark_processed(processed, design_id_of(Head(designs))),
                               Tail(designs))

RECURSIVE poll_loop(_, _, _)
\* the for-loop of a poll over the fetched list, in list order
poll_loop(which, st, designs) ==
    IF designs = <<>> THEN st
    ELSE poll_loop(which,
                   CASE which = "core" -> check_new_designs_step(st, Head(designs))
                     [] which = "cli" -> cli_run_once_step(st, Head(designs))
                     [] which = "single" -> single_run_once_step(st, Head(designs)),
                   Tail(designs))

InitMonitor ==
    /\ config = AppConfig
    /\ design = ScenarioA
    /\ pc = "idle"
    /\ result = NoResult
    /\ first = NoResult
    /\ kite_params = NoParams
    /\ calls = NoCalls
    /\ monitor \in {"core", "cli", "single"}
    /\ store = <<>>
    /\ uploads = 0
    /\ processed_ids = {}
    /\ results = <<>>
    /\ submitted = <<>>
    /\ errors = <<>>
    /\ clients = NoClients
    /\ smart = SmartIdle
    /\ last_poll = [fetched |-> <<>>, ended |-> "none", before |-> {}]

\* last_poll is what the caller of the poll that has just ended holds: the
\* list it fetched, the processed set it started from and how it ended. The
\* next write to the bin makes the list stale, so only the fact that the
\* monitor process has died of an exception is kept.
poll_over ==
    [fetched |-> <<>>, before |-> {},
     ended |-> IF last_poll.ended = "raised" THEN "raised" ELSE "none"]

\* DesignRepository.add_design(design): read the list (a failed read gives
\* []), append, write the list back; a failed write leaves the bin as it was
AddDesign ==
    /\ uploads < MaxStore
    /\ uploads' = uploads + 1
    /\ \E read_ok \in BOOLEAN, write_ok \in BOOLEAN :
          IF write_ok
          THEN \E new_design \in RecordSet :
                  store' = Append(get_all_designs(read_ok), new_design)
          ELSE store' = store
    /\ last_poll' = poll_over
    /\ UNCHANGED <<config, engineVars, monitor, processed_ids, results, submitted,
                   errors, clients, smart>>

\* JSONBinService.update_bin by another writer: the record stored under an
\* identifier is replaced by one with different content
ChangeRecord ==
    /\ \E i \in DOMAIN store, d \in MonitorDesigns :
          /\ d.drawing # store[i].drawing
          /\ store' = [store EXCEPT ![i] =
                          [@ EXCEPT !.drawing = d.drawing, !.materials = d.materials]]
    /\ last_poll' = poll_over
    /\ UNCHANGED <<config, engineVars, monitor, uploads, processed_ids, results,
                   submitted, errors, clients, smart>>

\* one poll: RealtimeScorer.check_new_designs, RealtimeScorerCLI.run_once or
\* SingleBinRealtimeScorer.run_once (which does not survive a poll that raised)
Poll ==
    /\ last_poll.ended # "raised"
    /\ \E read_ok \in BOOLEAN :
          LET fetched == get_all_designs(read_ok)
              start == [processed |-> processed_ids, results |-> results,
                        submitted |-> submitted, errors |-> errors,
                        ended |-> "returned"]
          IN  \E done \in {poll_loop(monitor, start, fetched)} :
                  /\ processed_ids' =
                        IF monitor = "single"
                        THEN get_new_designs_marks(processed_ids, fetched)
                        ELSE done.processed
                  /\ results' = done.results
                  /\ submitted' = done.submitted
                  /\ errors' = done.errors
                  /\ last_poll' = [fetched |-> fetched, ended |-> done.ended,
                                   before |-> processed_ids]
    /\ UNCHANGED <<config, engineVars, monitor, store, uploads, clients, smart>>

NextMonitor == AddDesign \/ ChangeRecord \/ Poll

SpecMonitor == InitMonitor /\ [][NextMonitor]_vars

----------------------------------------------------------------------------
(* Two clients of one bin: add_design cut at its two requests, the read of *)
(* the stored list and the write of the extended list                      *)

InitClients ==
    /\ config = AppConfig
    /\ design = ScenarioA
    /\ pc = "clients"
    /\ result = NoResult
    /\ first = NoResult
    /\ kite_params = NoParams
    /\ calls = NoCalls
    /\ MonitorIdle

\* existing = self.get_all_designs(); existing.append(design)
ReadDesigns(c) ==
    /\ clients[c].at # "read"
    /\ uploads < MaxStore
    /\ uploads' = uploads + 1
    /\ \E new_design \in RecordSet, read_ok \in BOOLEAN :
          clients' = [clients EXCEPT ![c] =
              [at |-> "read",
               existing |-> Append(get_all_designs(read_ok), new_design),
               design |-> new_design,
               read_ok |-> read_ok,
               returned |-> "none"]]
    /\ UNCHANGED <<config, engineVars, monitor, store, processed_ids, results,
                   submitted, errors, smart, last_poll>>

\* self.jsonbin.update_bin(self.bin_id, complete_data); return True, or
\* return False when the request raises
WriteDesigns(c) ==
    /\ clients[c].at = "read"
    /\ \E write_ok \in BOOLEAN :
          /\ store' = IF write_ok THEN clients[c].existing ELSE store
          /\ clients' = [clients EXCEPT ![c].at = "done",
                                        ![c].returned = IF write_ok THEN "True"
                                                        ELSE "False"]
    /\ UNCHANGED <<config, engineVars, monitor, uploads, processed_ids, results,
                   submitted, errors, smart, last_poll>>

NextClients == \E c \in Clients : ReadDesigns(c) \/ WriteDesigns(c)

SpecClients == InitClients /\ [][NextClients]_vars

----------------------------------------------------------------------------
(* The smart monitor: SmartRealtimeScorer polls one bin that holds one     *)
(* design, written by upload_complete_design                               *)

\* what upload_complete_design writes: the drawing of the canvas (a mapping
\* with or without 'timestamp', or None when nothing was drawn), the
\* materials, and metadata.created_at; other writers may leave keys out
SmartData ==
    LET \* the values of metadata.created_at and of drawing.timestamp, or none
        Stamps == {<<"at", k>> : k \in 1..MaxStamps} \cup {NoKey}
    IN  {[created_at |-> a, timestamp |-> t,
          drawing |-> ScenarioB.drawing, materials |-> ScenarioB.materials] :
            a \in Stamps, t \in Stamps}
        \cup {[created_at |-> a, timestamp |-> NoKey,
               drawing |-> [kind |-> k], materials |-> ScenarioB.materials] :
                 a \in Stamps, k \in {"absent", "null"}}

\* current_data.get('drawing', {}).get('timestamp') raises AttributeError
\* when 'drawing' is None
check_for_updates_raises(current_data) == current_data.drawing.kind = "null"

\* SmartRealtimeScorer.check_for_updates: the first timestamp of the list
\* that is set and differs from last_update_time becomes last_update_time
check_for_updates(last_update_time, current_data) ==
    IF current_data.created_at # NoKey /\ current_data.created_at # last_update_time
    THEN [updated |-> TRUE, last_update_time |-> current_data.created_at]
    ELSE IF current_data.timestamp # NoKey
            /\ current_data.timestamp # last_update_time
    THEN [updated |-> TRUE, last_update_time |-> current_data.timestamp]
    ELSE [updated |-> FALSE, last_update_time |-> last_update_time]

\* SmartRealtimeScorer.calculate_score: never raises
smart_calculate_score(design_data) ==
    IF legacy_calculate_all_raises(design_data)
    THEN [design_id |-> NoKey, score |-> 0, success |-> FALSE]
    ELSE [design_id |-> IF design_data.created_at # NoKey
                        THEN design_data.created_at ELSE Unknown,
          score |-> comprehensive_score(legacy_calculate_all_parameters(design_data)),
          success |-> TRUE]

InitSmart ==
    /\ config = AppConfig
    /\ design = ScenarioA
    /\ pc = "smart"
    /\ result = NoResult
    /\ first = NoResult
    /\ kite_params = NoParams
    /\ calls = NoCalls
    /\ MonitorIdle

\* upload_complete_design: update_bin replaces the content of the bin; a
\* failed request leaves it as it was
UploadComplete ==
    /\ uploads < MaxStore
    /\ uploads' = uploads + 1
    /\ \E complete_data \in SmartData, write_ok \in BOOLEAN :
          smart' = [smart EXCEPT !.data = IF write_ok THEN complete_data ELSE @]
    /\ UNCHANGED <<config, engineVars, monitor, store, processed_ids, results,
                   submitted, errors, clients, last_poll>>

\* SmartRealtimeScorer.run_once; an exception of check_for_updates leaves
\* run_continuous, which catches KeyboardInterrupt only
SmartRunOnce ==
    /\ smart.ended # "raised"
    /\ Len(smart.polls) < MaxPolls
    /\ \E read_ok \in BOOLEAN :
          LET data == IF read_ok THEN smart.data ELSE NoData
              check == check_for_updates(smart.last_update_time, data)
          IN  smart' =
                  IF data = NoData
                  THEN [smart EXCEPT
                           !.polls = Append(@, [data |-> data, updated |-> FALSE,
                                                appended |-> FALSE]),
                           !.ended = "returned"]
                  ELSE IF check_for_updates_raises(data)
                  THEN [smart EXCEPT
                           !.polls = Append(@, [data |-> data, updated |-> FALSE,
                                                appended |-> FALSE]),
                           !.ended = "raised"]
                  ELSE [smart EXCEPT
                           !.last_update_time = check.last_update_time,
                           !.score_history =
                               IF check.updated
                               THEN Append(@, smart_calculate_score(data))
                               ELSE @,
                           !.polls = Append(@, [data |-> data,
                                                updated |-> check.updated,
                                                appended |-> check.updated]),
                           !.ended = "returned"]
    /\ UNCHANGED <<config, engineVars, monitor, store, uploads, processed_ids,
                   results, submitted, errors, clients, last_poll>>

NextSmart == UploadComplete \/ SmartRunOnce

SpecSmart == InitSmart /\ [][NextSmart]_vars

----------------------------------------------------------------------------
(* The scorer's methods on a KiteParameters object, under a configuration  *)
(* that may have been adjusted                                             *)

IndexValues == {IndexStep * k : k \in 0..MaxIndexSteps}

\* costs at, just below and just above the multiples of CostStep
CostValues ==
    {c \in {CostStep * k + d : k \in 0..MaxCostSteps, d \in {-1, 0, 1}} : c >= 0}

AreaValues == {AreaStep * k : k \in 0..MaxAreaSteps}

WeightValues == {WeightStep * k : k \in 0..MaxWeightSteps}

\* KiteParameters objects: the fields the scorer reads vary, the others keep
\* the dataclass defaults
ParameterSet ==
    {[NoParams EXCEPT !.area = a, !.total_weight = w, !.estimated_cost = c,
                      !.flight_stability = fs, !.strength_index = si,
                      !.wind_resistance = wr, !.materials_used = m] :
        a \in AreaValues, w \in WeightValues, c \in CostValues,
        fs \in IndexValues, si \in IndexValues, wr \in IndexValues,
        m \in {ScenarioA.materials, ScenarioB.materials}}

\* (SCORE_SUCCESS_THRESHOLD, SCORE_STRUGGLE_THRESHOLD): the defaults and an
\* adjusted pair
ThresholdChoices == {<<80, 50>>, <<60, 40>>}

InitScorer ==
    /\ config = AppConfig
    /\ design = ScenarioA
    /\ pc = "params"
    /\ result = NoResult
    /\ first = NoResult
    /\ kite_params \in ParameterSet
    /\ calls = NoCalls
    /\ MonitorIdle

\* config.scoring.SCORE_SUCCESS_THRESHOLD = ...; SCORE_STRUGGLE_THRESHOLD = ...
Configure ==
    /\ pc = "params"
    /\ \E t \in ThresholdChoices :
          /\ config' = [config EXCEPT !.scoring.SCORE_SUCCESS_THRESHOLD = t[1],
                                      !.scoring.SCORE_STRUGGLE_THRESHOLD = t[2]]
          /\ config' # config
    /\ UNCHANGED <<engineVars, monitorVars>>

\* KiteScorer.score from `performance = ...` on: the four sub-score methods, the
\* weighted total and determine_level
ScoreParams ==
    /\ pc = "params"
    /\ result' = [kind |-> "returned", value |-> score_of_params(kite_params)]
    /\ pc' = "scored"
    /\ UNCHANGED <<config, design, first, kite_params, calls, monitorVars>>

\* SingleBinRealtimeScorer._calculate_comprehensive_score(params)
ComprehensiveScore ==
    /\ pc = "params"
    /\ result' = [kind |-> "returned",
                  value |-> [total_score |-> comprehensive_score(kite_params)]]
    /\ pc' = "comprehensive"
    /\ UNCHANGED <<config, design, first, kite_params, calls, monitorVars>>

NextScorer == Configure \/ ScoreParams \/ ComprehensiveScore

SpecScorer == InitScorer /\ [][NextScorer]_vars

----------------------------------------------------------------------------
(* The two calculators on the same design: KiteCalculator(design)          *)
(* .calculate_all() of core/calculator.py and KiteCalculator(design)       *)
(* .calculate_all_parameters() of kite_calculator.py                       *)

InitCalculators ==
    /\ config = AppConfig
    /\ design \in DesignSet
    /\ pc = "design"
    /\ result = NoResult
    /\ first = NoResult
    /\ kite_params = NoParams
    /\ calls = NoCalls
    /\ MonitorIdle

\* core.calculator.KiteCalculator(design).calculate_all()
CalculateAll ==
    /\ pc = "design"
    /\ result' = IF calculate_all_raises(design) THEN Raised
                 ELSE [kind |-> "returned", value |-> calculate_all(design)]
    /\ pc' = "core"
    /\ UNCHANGED <<config, design, first, kite_params, calls, monitorVars>>

\* kite_calculator.KiteCalculator(design).calculate_all_parameters()
LegacyCalculateAll ==
    /\ pc = "design"
    /\ result' = IF legacy_calculate_all_raises(design) THEN Raised
                 ELSE [kind |-> "returned",
                       value |-> legacy_calculate_all_parameters(design)]
    /\ pc' = "legacy"
    /\ UNCHANGED <<config, design, first, kite_params, calls, monitorVars>>

NextCalculators == CalculateAll \/ LegacyCalculateAll

SpecCalculators == InitCalculators /\ [][NextCalculators]_vars

----------------------------------------------------------------------------
(* Properties of the engine                                                *)

Returned == pc # "ready" /\ result.kind = "returned"

Params == result.value.parameters

\* the call whose result is held is a call on `design`
OnDesign == pc \in {"scored", "again"}

\* C1: every score that KiteScorer.score returns has total_score in the
\* closed range 0 to 100 (0..1000 tenths)
C1_TotalScoreInRange ==
    Returned => (0 <= result.value.total_score /\ result.value.total_score <= 1000)

\* C2: strength index, wind-resistance index and flight-stability index
\* produced by calculate_all each lie in 0..100 (0..10000 hundredths)
C2_IndicesOnScale ==
    Returned =>
        /\ 0 <= Params.strength_index /\ Params.strength_index <= 10000
        /\ 0 <= Params.wind_resistance /\ Params.wind_resistance <= 10000
        /\ 0 <= Params.flight_stability /\ Params.flight_stability <= 10000

\* the drawing carries no usable counts: absent, None, no statistics and no
\* objects, or zero points
NoCounts(dr) ==
    \/ dr.kind \in {"absent", "null"}
    \/ dr.kind = "objects" /\ dr.object_count = 0
    \/ dr.kind = "stats" /\ dr.totalPoints = 0

\* C3: for a design whose materials map each category to a list of names,
\* calculate_all never raises, and with the drawing absent, None, without
\* statistics or with zero counts the drawing-derived estimates are zero
C3_NeverRaises ==
    (pc # "ready" /\ OnDesign) =>
        /\ result.kind = "returned"
        /\ NoCounts(design.drawing) => (Params.area = 0 /\ Params.perimeter = 0)

\* the cost with only the terms of the categories in `cats`, in hundredths
CostOfCategories(design_data, cats) ==
    LET f == [m \in Recognized(design_data.materials.frame, FRAME_MATERIALS) |->
                 FRAME_MATERIALS[m].cost]
        s == [m \in Recognized(design_data.materials.surface, SURFACE_MATERIALS) |->
                 SURFACE_MATERIALS[m].cost]
        t == [m \in Recognized(design_data.materials.string, STRING_MATERIALS) |->
                 STRING_MATERIALS[m].cost]
    IN  RoundDiv((IF "frame" \in cats
                  THEN 2 * calculate_perimeter(design_data) * SumOver(f, DOMAIN f) ELSE 0)
                 + (IF "surface" \in cats
                    THEN calculate_area(design_data) * SumOver(s, DOMAIN s) ELSE 0)
                 + (IF "string" \in cats
                    THEN 20000 * SumOver(t, DOMAIN t) ELSE 0), 200)

NonEmptyCategories(materials) ==
    {c \in {"frame", "surface", "string"} : materials[c] # {}}

\* C7: a category with zero selected materials contributes exactly 0: its
\* weight is 0, its index (strength for frame, wind resistance for surface)
\* is 0, and the estimated cost is the cost of the other categories alone
C7_EmptyCategoryContributesZero ==
    (Returned /\ OnDesign) =>
        /\ design.materials.frame = {} =>
              (Params.frame_weight = 0 /\ Params.strength_index = 0)
        /\ design.materials.surface = {} =>
              (Params.surface_weight = 0 /\ Params.wind_resistance = 0)
        /\ design.materials.string = {} => Params.string_weight = 0
        /\ Params.estimated_cost =
              CostOfCategories(design, NonEmptyCategories(design.materials))
        /\ NonEmptyCategories(design.materials) = {} =>
              (Params.estimated_cost = 0 /\ Params.total_weight = 0)

C7_Witness ==
    /\ Returned /\ OnDesign
    /\ design.materials.frame = {}
    /\ design.materials.string = {}
    /\ design.materials.surface # {}
    /\ Params.estimated_cost > 0
    /\ Params.surface_weight > 0

\* the design with the same materials and another drawing
Redrawn(dr) == [design EXCEPT !.drawing = dr]

\* C8: with the material selection fixed, a drawing whose area and perimeter
\* are at least those of the scored design costs at least as much
C8_CostMonotone ==
    (Returned /\ OnDesign) =>
        \A dr \in DrawingSet :
            (/\ ~drawing_get_raises(Redrawn(dr))
             /\ calculate_area(Redrawn(dr)) >= Params.area
             /\ calculate_perimeter(Redrawn(dr)) >= Params.perimeter)
            => calculate_cost(Redrawn(dr)) >= Params.estimated_cost

C8_Witness ==
    /\ Returned /\ OnDesign
    /\ Params.estimated_cost > 0
    /\ \E dr \in DrawingSet :
          /\ ~drawing_get_raises(Redrawn(dr))
          /\ calculate_area(Redrawn(dr)) > Params.area
          /\ calculate_perimeter(Redrawn(dr)) > Params.perimeter
          /\ calculate_cost(Redrawn(dr)) > Params.estimated_cost

\* C9: when the computed area is 0 the ratio component of flight stability
\* is 0, so flight_stability = round(strength_index * 0.5, 2), and the
\* minimum, maximum and optimal wind speed are all 0
C9_ZeroArea ==
    (Returned /\ Params.area = 0) =>
        /\ Params.flight_stability = RoundDiv(Params.strength_index, 2)
        /\ Params.min_wind_speed = 0
        /\ Params.max_wind_speed = 0
        /\ Params.optimal_wind_speed = 0

C9_Witness ==
    /\ Returned /\ OnDesign
    /\ Params.area = 0
    /\ Params.total_weight > 0
    /\ Params.strength_index > 0
    /\ Params.wind_resistance > 0

StringOnly(dr) ==
    [drawing |-> dr,
     materials |-> [frame |-> {}, surface |-> {}, string |-> design.materials.string]]

\* C14: a design with the same material selection and another drawing has the
\* same innovation sub-score, the same string weight and the same cost of the
\* string category
C14_CategoryIndependence ==
    (Returned /\ pc = "scored") =>
        \A dr \in DrawingSet :
            ~drawing_get_raises(Redrawn(dr)) =>
                /\ calculate_innovation_score(
                       [materials_used |-> materials_used_of(Redrawn(dr))])
                      = result.value.innovation_score
                /\ calculate_string_weight(Redrawn(dr)) = Params.string_weight
                /\ calculate_cost(StringOnly(dr)) = calculate_cost(StringOnly(design.drawing))

\* another drawing changes area, feasibility and flight stability of a design
\* whose string category weighs and costs something
C14_Witness ==
    /\ Returned /\ OnDesign
    /\ Params.string_weight > 0
    /\ calculate_cost(StringOnly(design.drawing)) > 0
    /\ \E dr \in DrawingSet :
          /\ ~drawing_get_raises(Redrawn(dr))
          /\ calculate_area(Redrawn(dr)) # Params.area
          /\ KiteScorer_score(Redrawn(dr)).feasibility_score
                # result.value.feasibility_score
          /\ calculate_flight_stability(Redrawn(dr)) # Params.flight_stability

\* the number of materials a design selects, over the three categories
SelectedCount(design_data) ==
    Cardinality(design_data.materials.frame)
    + Cardinality(design_data.materials.surface)
    + Cardinality(design_data.materials.string)

\* C18: the innovation sub-score, of KiteScorer and of the single-bin
\* monitor's composite, is min(n * 20, 100) for n the number of selected
\* materials summed over frame, surface and string: 0 for an empty
\* selection, 100 from five selected materials on
C18_InnovationScore ==
    (Returned /\ OnDesign) =>
        LET n == SelectedCount(design)
            innovation == result.value.innovation_score
        IN  /\ innovation = Min(n * 20, 100)
            /\ comprehensive_innovation_score(Params) = Min(n * 20, 100)
            /\ n = 0 => innovation = 0
            /\ n >= 5 => innovation = 100

\* six selected materials score 100
C18_Witness ==
    /\ Returned /\ OnDesign
    /\ SelectedCount(design) = 6
    /\ result.value.innovation_score = 100

\* C22: for every design with non-negative counts, every numeric field of
\* the KiteParameters (area, perimeter, the four weights, the three indices,
\* the three wind speeds, the estimated cost) and every sub-score of the
\* result is non-negative
C22_NonNegative ==
    Returned =>
        /\ \A field \in {"area", "perimeter", "frame_weight", "surface_weight",
                         "string_weight", "total_weight", "strength_index",
                         "wind_resistance", "flight_stability", "min_wind_speed",
                         "max_wind_speed", "optimal_wind_speed", "estimated_cost"} :
              Params[field] >= 0
        /\ result.value.performance_score >= 0
        /\ result.value.feasibility_score >= 0
        /\ result.value.cost_score >= 0
        /\ result.value.innovation_score >= 0

\* a kite more than 1.5 g/cm2 heavy: the ratio score is floored at 0 and the
\* stability is half the strength
C22_Witness ==
    /\ Returned
    /\ Params.area > 0
    /\ 2 * Params.total_weight > 3 * Params.area
    /\ Params.flight_stability = RoundDiv(Params.strength_index, 2)

\* C29: whenever the computed area is positive the wind-speed envelope is
\* ordered, min_wind_speed <= optimal_wind_speed <= max_wind_speed
C29_WindEnvelopeOrdered ==
    (Returned /\ Params.area > 0) =>
        /\ Params.min_wind_speed <= Params.optimal_wind_speed
        /\ Params.optimal_wind_speed <= Params.max_wind_speed

----------------------------------------------------------------------------
(* Two callers inside KiteScorer.score at the same time: the body of score *)
(* is cut at its statements, the locals of each call (design_data, params, *)
(* the sub-scores) live in the call's own frame, self.config and the       *)
(* record are shared                                                       *)

\* the records the callers share: one bamboo spar, at most one surface
\* material, no string, over every drawing
SharedDesigns ==
    {d \in DesignSet : /\ d.materials.frame = {"bamboo"}
                       /\ Cardinality(d.materials.surface) <= 1
                       /\ d.materials.string = {}}

InitCallers ==
    /\ config = AppConfig
    /\ design \in SharedDesigns
    /\ pc = "callers"
    /\ result = NoResult
    /\ first = NoResult
    /\ kite_params = NoParams
    /\ calls = NoCalls
    /\ MonitorIdle

\* the other caller is between the entry and the return of its own call
Overlapping(c) ==
    \E d \in Callers \ {c} : calls[d].at \in {"entered", "calculated", "scored"}

\* a variant in which params is an attribute of the scorer the callers share:
\* a call reads what the other caller has assigned meanwhile
params_of_instance(frames, c) ==
    LET others == {d \in Callers \ {c} : frames[d].at \in {"calculated", "scored"}}
    IN  IF others = {} THEN frames[c].params
        ELSE frames[CHOOSE d \in others : TRUE].params

\* params = calculator.calculate_all(): a local of the call
params_of(frames, c) == frames[c].params

\* performance, feasibility, cost, innovation of score()
sub_scores(params) ==
    [performance |-> calculate_performance_score(params),
     feasibility |-> calculate_feasibility_score(params),
     cost |-> calculate_cost_score(params),
     innovation |-> calculate_innovation_score(params)]

\* total = round(performance * WEIGHT_PERFORMANCE + ..., 1); weights and
\* performance are hundredths, the total tenths
weighted_total(scores) ==
    LET cfg == get_config.scoring
    IN  RoundDiv(scores.performance * cfg.WEIGHT_PERFORMANCE
                 + 100 * scores.feasibility * cfg.WEIGHT_FEASIBILITY
                 + 100 * scores.cost * cfg.WEIGHT_COST
                 + 100 * scores.innovation * cfg.WEIGHT_INNOVATION, 1000)

\* return ScoreResult(total_score=total, level=level, ...)
score_result(params, scores) ==
    LET total == weighted_total(scores)
    IN  [total_score |-> total,
         level |-> determine_level(total),
         performance_score |-> scores.performance,
         feasibility_score |-> scores.feasibility,
         cost_score |-> scores.cost,
         innovation_score |-> scores.innovation,
         parameters |-> params]

\* caller c calls scorer.score(design_data) on the shared record or on another
Enter(c) ==
    /\ calls[c].at = "idle"
    /\ \E design_data \in {design} \cup OtherDesigns :
          calls' = [calls EXCEPT ![c] = [NoCall EXCEPT !.at = "entered",
                                                       !.design_data = design_data,
                                                       !.overlapped = Overlapping(c)]]
    /\ UNCHANGED <<config, design, pc, result, first, kite_params, monitorVars>>

\* calculator = KiteCalculator(design_data); params = calculator.calculate_all()
Calculate(c) ==
    /\ calls[c].at = "entered"
    /\ calls' = [calls EXCEPT ![c] =
          IF calculate_all_raises(calls[c].design_data)
          THEN [@ EXCEPT !.at = "returned", !.result = Raised,
                         !.overlapped = @ \/ Overlapping(c)]
          ELSE [@ EXCEPT !.at = "calculated",
                         !.params = calculate_all(calls[c].design_data),
                         !.overlapped = @ \/ Overlapping(c)]]
    /\ UNCHANGED <<config, design, pc, result, first, kite_params, monitorVars>>

\* performance = ...; feasibility = ...; cost = ...; innovation = ...
SubScores(c) ==
    /\ calls[c].at = "calculated"
    /\ calls' = [calls EXCEPT ![c] =
          [@ EXCEPT !.at = "scored",
                    !.scores = sub_scores(params_of(calls, c)),
                    !.overlapped = @ \/ Overlapping(c)]]
    /\ UNCHANGED <<config, design, pc, result, first, kite_params, monitorVars>>

\* total = round(..., 1); level = ...; return ScoreResult(...)
Return(c) ==
    /\ calls[c].at = "scored"
    /\ calls' = [calls EXCEPT ![c] =
          [@ EXCEPT !.at = "returned",
                    !.result = [kind |-> "returned",
                                value |-> score_result(params_of(calls, c),
                                                       calls[c].scores)],
                    !.overlapped = @ \/ Overlapping(c)]]
    /\ UNCHANGED <<config, design, pc, result, first, kite_params, monitorVars>>

NextCallers ==
    \E c \in Callers : Enter(c) \/ Calculate(c) \/ SubScores(c) \/ Return(c)

SpecCallers == InitCallers /\ [][NextCallers]_vars

----------------------------------------------------------------------------
(* Properties of the monitors                                              *)

\* how many times the identifier has been submitted to the scorer, in `seq`
Submissions(seq, id) ==
    Cardinality({j \in DOMAIN seq : seq[j].design_id = id})

\* the identifier of a record as the specification words it: design_id, or
\* else created_at, or else 'unknown'
IdentifierOf(record) ==
    IF record.design_id # NoKey THEN record.design_id
    ELSE IF record.created_at # NoKey THEN record.created_at
    ELSE Unknown

FetchedIdentifiers ==
    {IdentifierOf(last_poll.fetched[i]) : i \in DOMAIN last_poll.fetched}

\* C4: across the polls of a monitor no identifier is submitted to the
\* scorer more than once, and a step never submits an identifier that is
\* already in the processed set, whatever has happened to its record
C4_SubmittedAtMostOnce ==
    [][/\ \A j \in DOMAIN submitted' : Submissions(submitted', submitted'[j].design_id) = 1
       /\ \A id \in processed_ids : Submissions(submitted', id) = Submissions(submitted, id)
      ]_vars

\* a poll has fetched, under an identifier processed before that poll, a
\* record that differs from the one submitted, whose scoring had raised
C4_Witness ==
    /\ monitor = "core"
    /\ \E i \in DOMAIN last_poll.fetched, j \in DOMAIN submitted :
          /\ submitted[j].design_id = IdentifierOf(last_poll.fetched[i])
          /\ submitted[j].design_id \in last_poll.before
          /\ submitted[j].design # last_poll.fetched[i]
          /\ Call(submitted[j].design).kind = "raised"
          /\ Call(last_poll.fetched[i]).kind = "returned"

\* C5: a poll is not aborted by a failure on one record: it returns, and every
\* identifier of the fetched list that was new to the poll has been submitted
\* to the scorer, with a reported result wherever a score was computed
C5_PollNotAborted ==
    last_poll.ended # "none" =>
        /\ last_poll.ended = "returned"
        /\ \A id \in FetchedIdentifiers \ last_poll.before :
              Submissions(submitted, id) >= 1
        /\ \A j \in DOMAIN submitted :
              (monitor = "single" \/ Call(submitted[j].design).kind = "returned")
              => \E k \in DOMAIN results :
                    results[k].design_id \in
                        {submitted[j].design_id,
                         score_data_design_id(submitted[j].design)}

\* C6 as the specification words it: after a poll returns, every record of the
\* fetched list has itself been submitted to the scorer exactly once
C6_EveryRecordOnce ==
    last_poll.ended = "returned" =>
        \A i \in DOMAIN last_poll.fetched :
            Cardinality({j \in DOMAIN submitted :
                            submitted[j].design = last_poll.fetched[i]}) = 1

\* C6: after a poll returns, every identifier (design_id, or else created_at,
\* or else 'unknown') occurring in the fetched list has been submitted to the
\* scorer exactly once, in this poll or an earlier one
C6_EveryIdentifierOnce ==
    last_poll.ended = "returned" =>
        \A id \in FetchedIdentifiers : Submissions(submitted, id) = 1

\* a returned poll over two records, one identified by its design_id and one
\* by its created_at alone, both submitted
C6_Witness ==
    /\ last_poll.ended = "returned"
    /\ Len(last_poll.fetched) = 2
    /\ last_poll.fetched[1].design_id # NoKey
    /\ last_poll.fetched[2].design_id = NoKey
    /\ last_poll.fetched[2].created_at # NoKey
    /\ Len(submitted) = 2
    /\ submitted[2].design_id = last_poll.fetched[2].created_at

\* a call of add_design has ended: one more upload
AddDesignEnded == uploads' = uploads + 1

\* C26: add_design never loses stored designs: after a call that returned
\* True the bin holds the list stored before with the new design appended,
\* also when the read of the bin failed and the write succeeded; after a call
\* that returned False it holds the list stored before
C26_AddDesignKeepsStored ==
    [][AddDesignEnded =>
          \/ store' = store
          \/ /\ Len(store') = Len(store) + 1
             /\ SubSeq(store', 1, Len(store)) = store]_vars

\* design is one of the records of the stored list
Stored(new_design) == \E i \in DOMAIN store : store[i] = new_design

\* C27: when the calls of add_design of two clients have both read the bin
\* and both returned True, however their reads and writes interleaved, the
\* stored list holds both new designs
C27_BothDesignsStored ==
    (\A c \in Clients : /\ clients[c].at = "done"
                        /\ clients[c].read_ok
                        /\ clients[c].returned = "True")
        => \A c \in Clients : Stored(clients[c].design)

\* C25: when two consecutive polls of SmartRealtimeScorer read the same
\* data, check_for_updates returns False on the second and run_once appends
\* nothing to score_history, whichever of metadata.created_at and
\* drawing.timestamp the data carries
C25_ScoredOncePerUpload ==
    \A k \in 2..Len(smart.polls) :
        (/\ smart.polls[k].data # NoData
         /\ smart.polls[k].data = smart.polls[k - 1].data
         /\ smart.ended = "returned")
            => /\ ~smart.polls[k].updated
               /\ ~smart.polls[k].appended

\* the values of ScoreLevel
ScoreLevel == {"success", "struggle", "fail"}

RECURSIVE scores_sum(_, _)
\* sum(scores), in tenths
scores_sum(records, k) ==
    IF k = 0 THEN 0 ELSE scores_sum(records, k - 1) + records[k].score

RECURSIVE scores_float_sum(_, _)
\* sum(scores) as the interpreter adds the floats, left to right from 0
scores_float_sum(records, k) ==
    IF k = 0 THEN FloatZero
    ELSE float_add(scores_float_sum(records, k - 1),
                   float_value(records[k].score, 10))

\* round(sum(scores) / len(scores), 1), in tenths: the exact quotient decides
\* unless it lies half-way between two tenths, where the float quotient does
average_of(records) ==
    LET total == scores_sum(records, Len(records))
        n == Len(records)
    IN  IF (2 * total) % n = 0 /\ total % n # 0
        THEN float_round_to(float_div(scores_float_sum(records, n),
                                      float_of(n, 1)), 10)
        ELSE RoundDiv(total, n)

\* round(level_dist.get('success', 0) / len(self.results) * 100, 1), in tenths
success_rate_of(success, n) ==
    IF (2000 * success) % n = 0 /\ (1000 * success) % n # 0
    THEN float_round_to(float_mul(float_div(float_of(success, 1), float_of(n, 1)),
                                  float_of(100, 1)), 10)
    ELSE RoundDiv(1000 * success, n)

\* RealtimeScorer.get_statistics()
get_statistics(records) ==
    IF records = <<>>
    THEN [total |-> 0, average |-> 0, success_rate |-> 0,
          level_distribution |-> [level \in {} |-> 0]]
    ELSE LET level_dist ==
                 [level \in ScoreLevel |->
                     Cardinality({i \in DOMAIN records : records[i].level = level})]
         IN  [total |-> Len(records),
              average |-> average_of(records),
              success_rate |-> success_rate_of(level_dist["success"], Len(records)),
              level_distribution |-> level_dist]

RECURSIVE CountSum(_, _)
\* the sum of the counts of a level distribution over a set of its levels
CountSum(dist, levels) ==
    IF levels = {} THEN 0
    ELSE LET level == CHOOSE l \in levels : TRUE
         IN  dist[level] + CountSum(dist, levels \ {level})

\* C30: the results of RealtimeScorer hold at most one record per design
\* identifier, every identifier in results is in processed_ids, and
\* get_statistics reports total = len(results), level counts that sum to
\* total and a success_rate between 0 and 100
C30_ResultsAndStatistics ==
    monitor = "core" =>
        LET statistics == get_statistics(results)
        IN  /\ \A i, j \in DOMAIN results :
                  results[i].design_id = results[j].design_id => i = j
            /\ \A i \in DOMAIN results : results[i].design_id \in processed_ids
            /\ statistics.total = Len(results)
            /\ CountSum(statistics.level_distribution,
                        DOMAIN statistics.level_distribution) = statistics.total
            /\ statistics.success_rate >= 0
            /\ statistics.success_rate <= 1000

C30_Witness ==
    /\ monitor = "core"
    /\ Len(results) = 2
    /\ last_poll.ended = "returned"
    /\ last_poll.before # {}
    /\ \E i \in DOMAIN last_poll.fetched :
          design_id_of(last_poll.fetched[i]) \in last_poll.before
    /\ get_statistics(results).total = 2

\* the records handed to the scorer whose drawing is not a mapping
MalformedSubmitted ==
    {i \in DOMAIN submitted : calculate_all_raises(submitted[i].design)}

\* C24: a record whose drawing is not the expected structure is reported
\* as exactly one error that carries the record's identifier, and no score
\* for it is added to the monitor's results
C24_ShapeErrorReportedOnce ==
    /\ \A i \in MalformedSubmitted :
          /\ Cardinality({j \in DOMAIN errors :
                             errors[j] = submitted[i].design_id}) = 1
          /\ \A j \in DOMAIN results :
                results[j].design_id # submitted[i].design_id
    /\ Len(errors) = Cardinality(MalformedSubmitted)
    /\ Len(results) <= Len(submitted) - Cardinality(MalformedSubmitted)

----------------------------------------------------------------------------
(* Properties of the scorer's methods                                      *)

\* the scorer has run on kite_params
Scored == pc = "scored" /\ result.kind = "returned"

\* C11: the cost sub-score is 100 below 50, 80 from 50 to below 100, 60 from
\* 100 to below 150 and 30 from 150 on (costs in hundredths of a yuan)
C11_CostTiers ==
    Scored =>
        LET cost == kite_params.estimated_cost
        IN  /\ cost < 5000 => result.value.cost_score = 100
            /\ (5000 <= cost /\ cost < 10000) => result.value.cost_score = 80
            /\ (10000 <= cost /\ cost < 15000) => result.value.cost_score = 60
            /\ cost >= 15000 => result.value.cost_score = 30

\* a cost of exactly 100 scored 60
C11_Witness ==
    /\ Scored
    /\ kite_params.estimated_cost = 10000
    /\ result.value.cost_score = 60

\* C15: the verdict of a ScoreResult is the tier of its own total_score under
\* the thresholds the configuration holds when the score is computed:
\* "success" from the success threshold on, else "struggle" from the struggle
\* threshold on, else "fail" (80 and 50 unless the configuration was changed)
C15_LevelFollowsThresholds ==
    Scored =>
        LET total == result.value.total_score
            cfg == config.scoring
        IN  /\ result.value.level =
                  IF total >= 10 * cfg.SCORE_SUCCESS_THRESHOLD THEN "success"
                  ELSE IF total >= 10 * cfg.SCORE_STRUGGLE_THRESHOLD THEN "struggle"
                  ELSE "fail"
            /\ config = AppConfig =>
                  result.value.level =
                      IF total >= 800 THEN "success"
                      ELSE IF total >= 500 THEN "struggle"
                      ELSE "fail"

\* with the success threshold lowered to 60, a total between 60 and 80 is a
\* "success"
C15_Witness ==
    /\ Scored
    /\ config.scoring.SCORE_SUCCESS_THRESHOLD = 60
    /\ result.value.total_score >= 600
    /\ result.value.total_score < 800
    /\ result.value.level = "success"

\* the feasibility band of total_weight / area as the specification words it,
\* on exact fractions: 0 without area, 100 in [0.3, 0.7], else 70 in
\* [0.2, 1.0], else 40
FeasibilityBand(area, weight) ==
    IF area <= 0 THEN 0
    ELSE IF 10 * weight >= 3 * area /\ 10 * weight <= 7 * area THEN 100
    ELSE IF 10 * weight >= 2 * area /\ 10 * weight <= 10 * area THEN 70
    ELSE 40

\* C16: the feasibility sub-score, of KiteScorer and of the single-bin
\* monitor's composite, is the band of total_weight / area with inclusive
\* limits (100 on [0.3, 0.7], else 70 on [0.2, 1.0], else 40; 0 when the
\* area is not positive), the first matching band winning; it is one of
\* 0, 40, 70, 100
C16_FeasibilityBands ==
    /\ Scored =>
          /\ result.value.feasibility_score
                = FeasibilityBand(kite_params.area, kite_params.total_weight)
          /\ result.value.feasibility_score \in {0, 40, 70, 100}
    /\ pc = "comprehensive" =>
          comprehensive_feasibility_score(kite_params)
              = FeasibilityBand(kite_params.area, kite_params.total_weight)

----------------------------------------------------------------------------
(* Properties of the calculators                                           *)

Calculated(which) == pc = which /\ result.kind = "returned"

\* the three weights of the parameters p of a design: each selected
\* material contributes its table value, or `unlisted` of its category when
\* the table does not list it, divided by the number of selected materials
WeightsDividedBySelected(p, table, unlisted) ==
    LET selected == design.materials
        frame == [m \in selected.frame |->
                     IF m \in DOMAIN table.frame
                     THEN table.frame[m].density * table.frame[m].weight_factor
                     ELSE unlisted.frame]
        surface == [m \in selected.surface |->
                       IF m \in DOMAIN table.surface
                       THEN table.surface[m].weight_per_sqm
                       ELSE unlisted.surface]
        string == [m \in selected.string |->
                      IF m \in DOMAIN table.string
                      THEN table.string[m].weight_per_meter
                      ELSE unlisted.string]
    IN  /\ p.frame_weight =
              IF selected.frame = {} THEN 0
              \* perimeter * 1.5 * 0.5 * density * weight_factor / count
              ELSE RoundDiv(3 * p.perimeter * SumOver(frame, selected.frame),
                            400 * Cardinality(selected.frame))
        /\ p.surface_weight =
              IF selected.surface = {} THEN 0
              \* area / 10000 * weight_per_sqm / count
              ELSE RoundDiv(p.area * SumOver(surface, selected.surface),
                            10000 * Cardinality(selected.surface))
        /\ p.string_weight =
              IF selected.string = {} THEN 0
              \* 50 * weight_per_meter / count
              ELSE RoundDiv(5000 * SumOver(string, selected.string),
                            Cardinality(selected.string))

CoreTables ==
    [frame |-> FRAME_MATERIALS, surface |-> SURFACE_MATERIALS,
     string |-> STRING_MATERIALS]

NothingForUnlisted == [frame |-> 0, surface |-> 0, string |-> 0]

\* density 1.0 * weight_factor 1.0 (tenths each), 70 g/m2, 8 g/m
LegacyDefaults == [frame |-> 100, surface |-> 70, string |-> 8]

\* C19 as stated: in both calculators a selected material that the table
\* does not list contributes 0 weight and still counts toward the divisor
C19_UnlistedWeighsNothing ==
    /\ Calculated("core") =>
          WeightsDividedBySelected(result.value, CoreTables, NothingForUnlisted)
    /\ Calculated("legacy") =>
          WeightsDividedBySelected(result.value, MATERIAL_PROPERTIES,
                                   NothingForUnlisted)

\* C19, amended: in both calculators every contribution is divided by the
\* number of selected materials of the category; a selected material that
\* the table does not list contributes 0 in the core calculator, and in the
\* legacy calculator the default density 1.0 * weight_factor 1.0,
\* 70 g/m2 or 8 g/m of its category
C19_DividedBySelected ==
    /\ Calculated("core") =>
          WeightsDividedBySelected(result.value, CoreTables, NothingForUnlisted)
    /\ Calculated("legacy") =>
          WeightsDividedBySelected(result.value, MATERIAL_PROPERTIES,
                                   LegacyDefaults)

\* the core calculator weighed a frame of one listed and one unlisted
\* material at half the weight of the listed one alone
C19_Witness ==
    /\ Calculated("core")
    /\ design.materials.frame = {"bamboo", UnlistedMaterial}
    /\ result.value.perimeter > 0
    /\ result.value.frame_weight > 0
    /\ 2 * result.value.frame_weight
          = calculate_frame_weight([design EXCEPT !.materials.frame = {"bamboo"}])

\* the point count and the path count of the statistics of the drawing of
\* `design`, 0 when missing, and its object_count, 0 when missing
StatedPoints ==
    IF design.drawing.kind = "stats" THEN design.drawing.totalPoints ELSE 0

StatedPaths ==
    IF design.drawing.kind = "stats" THEN design.drawing.pathCount ELSE 0

ObjectCount ==
    IF design.drawing.kind = "objects" THEN design.drawing.object_count ELSE 0

\* points * 0.5 on at least one path, else 0, in hundredths of cm
HalfThePoints(points, paths) == IF paths > 0 THEN 50 * points ELSE 0

\* C20 as stated: calculate_perimeter, of either calculator, returns 0
\* whenever the path count of the drawing is 0 or missing, and otherwise
\* path_count * (total_points / path_count) * 0.5 rounded to 2 decimals
C20_PerimeterNeedsPathCount ==
    (Calculated("core") \/ Calculated("legacy")) =>
        result.value.perimeter = HalfThePoints(StatedPoints, StatedPaths)

\* C20, amended: the legacy calculate_perimeter is as stated; the core one
\* takes object_count * 50 for the point count and object_count for the path
\* count when the statistics give no points (totalPoints 0 or missing), so
\* that a drawing without statistics and with k >= 1 objects has the
\* perimeter 25 * k; either returns 0 when its path count is 0
C20_PerimeterOfCounts ==
    /\ Calculated("legacy") =>
          result.value.perimeter = HalfThePoints(StatedPoints, StatedPaths)
    /\ Calculated("core") =>
          result.value.perimeter =
              IF StatedPoints = 0
              THEN HalfThePoints(ObjectCount * 50, ObjectCount)
              ELSE HalfThePoints(StatedPoints, StatedPaths)

\* the core calculator gave a drawing of objects, without statistics, a
\* perimeter of 25 cm per object
C20_Witness ==
    /\ Calculated("core")
    /\ design.drawing.kind = "objects"
    /\ design.drawing.object_count >= 1
    /\ result.value.perimeter = 2500 * design.drawing.object_count

\* points * 0.8, in hundredths of cm2
EightTenths(points) == IF points > 0 THEN 80 * points ELSE 0

\* C21: calculate_area, of either calculator, returns total_points * 0.8
\* when the drawing carries a point count, object_count * 50 * 0.8 when it
\* carries no point count but an object_count, and 0 when it carries neither
C21_AreaOfCounts ==
    (Calculated("core") \/ Calculated("legacy")) =>
        result.value.area =
            IF StatedPoints = 0 THEN EightTenths(ObjectCount * 50)
            ELSE EightTenths(StatedPoints)

\* every selected name of `design` is in the reference table of its category
AllListed ==
    /\ design.materials.frame \subseteq DOMAIN FRAME_MATERIALS
    /\ design.materials.surface \subseteq DOMAIN SURFACE_MATERIALS
    /\ design.materials.string \subseteq DOMAIN STRING_MATERIALS

\* C28: for a design whose selected names are all listed and whose drawing
\* carries statistics, the legacy pipeline (calculate_all_parameters, then
\* _calculate_comprehensive_score) and the refactored pipeline (calculate_all,
\* then KiteScorer.score) produce the same parameters and the same composite
\* score
C28_PipelinesAgree ==
    (Calculated("legacy") /\ AllListed /\ design.drawing.kind = "stats") =>
        /\ result.value = calculate_all(design)
        /\ comprehensive_score(result.value) = KiteScorer_score(design).total_score

\* C28, amended: for such a design the two pipelines produce the same
\* parameters, and composite scores that differ by at most 0.1: the legacy
\* composite weights the performance sum as it is, the refactored one the
\* performance sub-score rounded to two decimals
C28_PipelinesWithinATenth ==
    (Calculated("legacy") /\ AllListed /\ design.drawing.kind = "stats") =>
        /\ result.value = calculate_all(design)
        /\ Abs(comprehensive_score(result.value)
               - KiteScorer_score(design).total_score) <= 1

\* the two composite scores of one design differ
C28_Witness ==
    /\ Calculated("legacy") /\ AllListed /\ design.drawing.kind = "stats"
    /\ design.drawing.totalPoints > 0
    /\ result.value = calculate_all(design)
    /\ comprehensive_score(result.value) # KiteScorer_score(design).total_score

----------------------------------------------------------------------------
(* Properties of interleaved callers                                       *)

\* a call that has returned handed back what the same call returns when it
\* runs alone
ReturnedAsAlone ==
    \A c \in Callers :
        calls[c].at = "returned" => calls[c].result = Call(calls[c].design_data)

\* no step of a call assigns to the shared record or to the configuration,
\* which holds the scoring thresholds and the material reference table
SharedUnchanged == design' = design /\ config' = config

\* C23: KiteScorer.score leaves the design record, the material reference
\* table and the scoring configuration unchanged, and every call interleaved
\* with another caller's call returns what it returns when run alone
C23_Pure == [](ReturnedAsAlone /\ config = AppConfig) /\ [][SharedUnchanged]_vars

C23_Witness ==
    /\ \A c \in Callers : /\ calls[c].at = "returned"
                          /\ calls[c].overlapped
                          /\ calls[c].result.kind = "returned"
    /\ calls[1].design_data = design
    /\ calls[2].design_data \in OtherDesigns
    /\ calls[1].result.value.total_score # calls[2].result.value.total_score

====
